---- MODULE Spec2Model ----
(***************************************************************************)
(* A model of serverless-pong's request handler (pong/src/pong.js): the    *)
(* Redis client cache, the session store with its time-to-live, and the    *)
(* six session operations served by handleRequest.                         *)
(*                                                                         *)
(* Encoding of JavaScript values: a value is a record [k, n]; k is the     *)
(* type tag ("num", "bool", "null", "undef") and n the number (1/0 for a   *)
(* boolean).  Positions and scores are whole numbers; ball velocities are  *)
(* held in tenths (10 is 100, 7.5 is 75) and ballSpeedMultiplier in        *)
(* 1024ths (1.0 is 1024, 1.5 is 1536), so that every value is an           *)
(* integer.  An object is a function from its property names to values; a  *)
(* property that is missing reads as undefined.                            *)
(***************************************************************************)
EXTENDS Integers, Sequences, FiniteSets, TLC

\* ---------------------------------------------------------------- bounds
MaxUpdates == 1
MaxAdvances == 4
MaxOutages == 1
MaxInFlight == 2
ClockStep == 1250
StartOfTime == 1000
IdleStep == 100000
MatchStep == 3000
MaxMatchSteps == 1
MaxIdleSteps == 4
SkewStep == 1250
LateStep == 299000

\* ------------------------------------------------------- program constants
SESSION_TTL == 300
COUNTDOWN_FROM == 3
WINNING_SCORE == 3
MULT_ONE == 1024
FULL_WIDTH == 800
CANVAS_HEIGHT == 600
PADDLE_WIDTH == 20
PADDLE_HEIGHT == 100
BALL_SIZE == 16
BASE_BALL_SPEED == 10

\* ------------------------------------------------------- JavaScript values
Num(x) == [k |-> "num", n |-> x]
Bool(b) == [k |-> "bool", n |-> IF b THEN 1 ELSE 0]
Null == [k |-> "null", n |-> 0]
Undefined == [k |-> "undef", n |-> 0]

\* ToBoolean: 0, null and undefined are falsy.
Truthy(v) == (v.k = "num" /\ v.n # 0) \/ (v.k = "bool" /\ v.n = 1)

\* Property read: a missing property reads as undefined.
Get(o, f) == IF f \in DOMAIN o THEN o[f] ELSE Undefined

\* Property assignment o.f = v (the property exists afterwards, even when
\* v is undefined).
Put(o, f, v) == [x \in (DOMAIN o) \cup {f} |-> IF x = f THEN v ELSE o[x]]

EmptyObject == [x \in {} |-> Undefined]

\* JSON.stringify of an object: properties whose value is undefined are
\* left out of the text.  The text is held as the object it denotes.
Stringify(o) ==
  LET keep == {f \in DOMAIN o : o[f] # Undefined}
  IN [f \in keep |-> o[f]]

\* JSON.parse of a text written by Stringify.
Parse(text) == text

\* ------------------------------------------------------------ the session
SessionFields ==
  {"ballX", "ballY", "ballVelX", "ballVelY", "ballSpeedMultiplier",
   "p1Y", "p2Y", "p1Score", "p2Score", "gameStarted", "winner",
   "countdownActive", "countdownValue", "countdownStartTime",
   "readyToStart", "lastUpdate", "p1Connected", "p2Connected"}

\* handleCreate: the session literal (no countdownStartTime property).
InitialSessionMut(t) ==
  [f \in SessionFields \ {"countdownStartTime"} |->
     CASE f = "ballX" -> Num(400)
       [] f = "ballY" -> Num(300)
       [] f = "ballVelX" -> Num(100)
       [] f = "ballVelY" -> Num(75)
       [] f = "ballSpeedMultiplier" -> Num(MULT_ONE)
       [] f = "p1Y" -> Num(300)
       [] f = "p2Y" -> Num(300)
       [] f = "p1Score" -> Num(0)
       [] f = "p2Score" -> Num(0)
       [] f = "gameStarted" -> Bool(FALSE)
       [] f = "winner" -> Null
       [] f = "countdownActive" -> Bool(FALSE)
       [] f = "countdownValue" -> Num(0)
       [] f = "readyToStart" -> Bool(FALSE)
       [] f = "lastUpdate" -> Num(t)
       [] f = "p1Connected" -> Bool(TRUE)
       [] OTHER -> Bool(TRUE)]

InitialSession(t) ==
  [f \in SessionFields \ {"countdownStartTime"} |->
     CASE f = "ballX" -> Num(400)
       [] f = "ballY" -> Num(300)
       [] f = "ballVelX" -> Num(100)
       [] f = "ballVelY" -> Num(75)
       [] f = "ballSpeedMultiplier" -> Num(MULT_ONE)
       [] f = "p1Y" -> Num(300)
       [] f = "p2Y" -> Num(300)
       [] f = "p1Score" -> Num(0)
       [] f = "p2Score" -> Num(0)
       [] f = "gameStarted" -> Bool(FALSE)
       [] f = "winner" -> Null
       [] f = "countdownActive" -> Bool(FALSE)
       [] f = "countdownValue" -> Num(0)
       [] f = "readyToStart" -> Bool(FALSE)
       [] f = "lastUpdate" -> Num(t)
       [] f = "p1Connected" -> Bool(TRUE)
       [] OTHER -> Bool(FALSE)]

\* A chain of property assignments, applied left to right.
RECURSIVE PutAll(_, _)
PutAll(o, kvs) ==
  IF kvs = <<>> THEN o
  ELSE PutAll(Put(o, kvs[1][1], kvs[1][2]), Tail(kvs))

\* handleJoin: the assignment made to the loaded session.
JoinSessionMut(s) == Put(s, "p2Connected", Bool(~Truthy(Get(s, "p2Connected"))))

JoinSession(s) == Put(s, "p2Connected", Bool(TRUE))

\* handleStart: the assignments made to the loaded session.
StartSessionKeepsAnchor(s, t) ==
  PutAll(s, << <<"countdownActive", Bool(TRUE)>>,
               <<"countdownValue", Num(COUNTDOWN_FROM)>>,
               <<"countdownStartTime",
                 IF Truthy(Get(s, "countdownActive")) /\ Truthy(Get(s, "countdownStartTime"))
                   THEN Get(s, "countdownStartTime") ELSE Num(t)>> >>)

StartSessionClearsReady(s, t) ==
  PutAll(s, << <<"countdownActive", Bool(TRUE)>>,
               <<"countdownValue", Num(COUNTDOWN_FROM)>>,
               <<"countdownStartTime", Num(t)>>,
               <<"readyToStart", Bool(FALSE)>> >>)

StartSession(s, t) ==
  PutAll(s, << <<"countdownActive", Bool(TRUE)>>,
               <<"countdownValue", Num(COUNTDOWN_FROM)>>,
               <<"countdownStartTime", Num(t)>> >>)

\* handleReset: the assignments made to the loaded session.
ResetSessionMut(s, t) ==
  PutAll(s, << <<"ballX", Num(400)>>, <<"ballY", Num(300)>>,
               <<"ballVelX", Num(100)>>, <<"ballVelY", Num(75)>>,
               <<"ballSpeedMultiplier", Num(MULT_ONE)>>,
               <<"p1Score", Num(0)>>, <<"p2Score", Num(0)>>,
               <<"gameStarted", Bool(FALSE)>>,
               <<"countdownActive", Bool(TRUE)>>,
               <<"countdownValue", Num(COUNTDOWN_FROM)>>,
               <<"countdownStartTime", Num(t)>>,
               <<"readyToStart", Bool(FALSE)>> >>)

ResetSession(s, t) ==
  PutAll(s, << <<"ballX", Num(400)>>, <<"ballY", Num(300)>>,
               <<"ballVelX", Num(100)>>, <<"ballVelY", Num(75)>>,
               <<"ballSpeedMultiplier", Num(MULT_ONE)>>,
               <<"p1Score", Num(0)>>, <<"p2Score", Num(0)>>,
               <<"gameStarted", Bool(FALSE)>>, <<"winner", Null>>,
               <<"countdownActive", Bool(TRUE)>>,
               <<"countdownValue", Num(COUNTDOWN_FROM)>>,
               <<"countdownStartTime", Num(t)>>,
               <<"readyToStart", Bool(FALSE)>> >>)

\* ------------------------------------------------------------ handleUpdate
Has(b, f) == Get(b, f) # Undefined

\* The paddle branch: player 1 writes p1Y, player 2 writes p2Y, and a
\* paddleY without one of these player numbers is dropped.
UpdatePaddle(s, b) ==
  IF Get(b, "player") = Num(1) /\ Has(b, "paddleY")
    THEN Put(s, "p1Y", Get(b, "paddleY"))
  ELSE IF Get(b, "player") = Num(2) /\ Has(b, "paddleY")
    THEN Put(s, "p2Y", Get(b, "paddleY"))
  ELSE s

\* The ball branch: the four ball properties are copied together, and only
\* when the body carries ballX.
UpdateBallMut(s, b) ==
  IF Has(b, "ballX") THEN Put(s, "ballX", Get(b, "ballX")) ELSE s

UpdateBall(s, b) ==
  IF Has(b, "ballX")
    THEN PutAll(s, << <<"ballX", Get(b, "ballX")>>,
                      <<"ballY", Get(b, "ballY")>>,
                      <<"ballVelX", Get(b, "ballVelX")>>,
                      <<"ballVelY", Get(b, "ballVelY")>> >>)
    ELSE s

\* if (body.f !== undefined) session.f = body.f
CopyIfPresent(s, b, f) == IF Has(b, f) THEN Put(s, f, Get(b, f)) ELSE s

UpdateScores(s, b) ==
  LET s1 == CopyIfPresent(s, b, "ballSpeedMultiplier")
      s2 == CopyIfPresent(s1, b, "p1Score")
      s3 == CopyIfPresent(s2, b, "p2Score")
  IN CopyIfPresent(s3, b, "winner")

\* The countdownActive branch with its special rule, then countdownValue.
UpdateCountdown(s, b) ==
  LET s1 == IF Has(b, "countdownActive")
              THEN LET a == Put(s, "countdownActive", Get(b, "countdownActive"))
                   IN IF Get(b, "countdownActive") = Bool(FALSE)
                         /\ Get(b, "countdownValue") = Num(0)
                        THEN Put(a, "readyToStart", Bool(TRUE))
                        ELSE a
              ELSE s
  IN CopyIfPresent(s1, b, "countdownValue")

UpdateFlagsMut(s, b) ==
  CopyIfPresent(s, b, "gameStarted")

UpdateFlags(s, b) ==
  CopyIfPresent(CopyIfPresent(s, b, "gameStarted"), b, "readyToStart")

\* handleUpdate: the assignments made to the loaded session, in order.
ApplyUpdate(s, b) ==
  UpdateFlags(UpdateCountdown(UpdateScores(UpdateBall(UpdatePaddle(s, b), b), b), b), b)

\* ------------------------------------------------------------- handleState
\* The test that guards the countdown block.
CountdownRunning(s) ==
  Truthy(Get(s, "countdownActive")) /\ Truthy(Get(s, "countdownStartTime"))

\* newCountdownValue at Date.now() = t (Math.floor is \div).
NewCountdownValueMut(s, t) ==
  LET elapsed == t - Get(s, "countdownStartTime").n
      secondsElapsed == elapsed \div 1000
  IN COUNTDOWN_FROM - secondsElapsed

NewCountdownValueStepping(s, t) ==
  IF Get(s, "countdownValue").n > 0 THEN Get(s, "countdownValue").n - 1 ELSE 0

NewCountdownValueCeil(s, t) ==
  LET elapsed == t - Get(s, "countdownStartTime").n
      v == COUNTDOWN_FROM - ((elapsed + 999) \div 1000)
  IN IF v < 0 THEN 0 ELSE v

NewCountdownValue(s, t) ==
  LET elapsed == t - Get(s, "countdownStartTime").n
      secondsElapsed == elapsed \div 1000
  IN IF secondsElapsed >= 3 THEN 0 ELSE COUNTDOWN_FROM - secondsElapsed

\* The countdown block applied to a session whose countdown is running.
ResolveCountdownMut(s, t) ==
  LET v == NewCountdownValue(s, t)
      s1 == IF Num(v) # Get(s, "countdownValue")
              THEN Put(s, "countdownValue", Num(v)) ELSE s
  IN IF v = 0
       THEN PutAll(s1, << <<"countdownActive", Bool(FALSE)>>,
                          <<"readyToStart", Bool(TRUE)>> >>)
       ELSE s1

ResolveCountdownStaysActive(s, t) ==
  LET v == NewCountdownValue(s, t)
      s1 == IF Num(v) # Get(s, "countdownValue")
              THEN Put(s, "countdownValue", Num(v)) ELSE s
  IN IF v = 0 THEN Put(s1, "readyToStart", Bool(TRUE)) ELSE s1

ResolveCountdown(s, t) ==
  LET v == NewCountdownValue(s, t)
      s1 == IF Num(v) # Get(s, "countdownValue")
              THEN Put(s, "countdownValue", Num(v)) ELSE s
  IN IF v = 0
       THEN PutAll(s1, << <<"countdownActive", Bool(FALSE)>>,
                          <<"readyToStart", Bool(TRUE)>>,
                          <<"countdownStartTime", Null>> >>)
       ELSE s1

\* setSession stamps lastUpdate on the object before it serialises it.
StampLastUpdate(s, t) == Put(s, "lastUpdate", Num(t))

\* ------------------------------------------------------------------ state
VARIABLES
  now,                      \* Date.now(), in milliseconds
  storeUp,                  \* whether the Redis server can be reached
  outages,                  \* how often the server has gone away
  redisClient,              \* the cached client: "null" or "client"
  sock,                     \* the client's socket: closed, connecting, open, broken
  isRedisConnected,
  redisUnavailable,
  redisUnavailableMessage,
  store,                    \* key -> [data: JSON text, exp: expiry time]
  pc,                       \* per request: idle, connect, get, set, done
  req,                      \* per request: its inputs and what it has read
  sess,                     \* per request: the object passed to setSession
  resp,                     \* per request: what handleRequest settles with
  updates,                  \* update requests issued
  wlog,                     \* per key: the kind and body of its last write
  cl                        \* per player: the variables of its browser page

vars == <<now, storeUp, outages, redisClient, sock, isRedisConnected,
          redisUnavailable, redisUnavailableMessage, store, pc, req, sess,
          resp, updates, wlog, cl>>

connVars == <<redisClient, sock, isRedisConnected, redisUnavailable,
              redisUnavailableMessage>>

Slots == 1..MaxInFlight
Players == {1, 2}
SessionIds == {"s1"}
SessionActions == {"join", "start", "reset", "update", "state"}
ActionTokens == SessionActions \cup {"create", "none", "bogus"}

NoMessage == "null"
NoRequest == [method |-> "none"]
NoResponse == [outcome |-> "none"]
NoWrite == [kind |-> "none"]

\* ------------------------------------------------------------- the inputs
\* The values an update body may carry for each property it can carry.
BodyKeys ==
  {"player", "paddleY", "ballX", "ballY", "ballVelX", "ballVelY",
   "ballSpeedMultiplier", "p1Score", "p2Score", "winner",
   "countdownActive", "countdownValue", "gameStarted", "readyToStart"}

FieldValues(f) ==
  CASE f = "player" -> {Num(1), Num(2)}
    [] f = "paddleY" -> {Num(150)}
    [] f = "ballX" -> {Num(810)}
    [] f = "ballY" -> {Num(120)}
    [] f = "ballVelX" -> {Num(-100)}
    [] f = "ballVelY" -> {Num(-75)}
    [] f = "ballSpeedMultiplier" -> {Num(1536)}
    [] f = "p1Score" -> {Num(1)}
    [] f = "p2Score" -> {Num(2)}
    [] f = "winner" -> {Null, Num(1)}
    [] f = "countdownActive" -> {Bool(TRUE), Bool(FALSE)}
    [] f = "countdownValue" -> {Num(0), Num(2)}
    [] OTHER -> {Bool(TRUE), Bool(FALSE)}

\* Bodies that carry one property.
SingleBodies ==
  UNION {{[g \in {f} |-> v] : v \in FieldValues(f)} : f \in BodyKeys}

\* Bodies of two properties that handleUpdate reads together.
PairBody(f, v, g, w) == [x \in {f, g} |-> IF x = f THEN v ELSE w]

PairBodies ==
  {PairBody("player", Num(1), "paddleY", Num(150)),
   PairBody("ballX", Num(810), "ballY", Num(120)),
   PairBody("countdownActive", Bool(FALSE), "countdownValue", Num(0)),
   PairBody("countdownActive", Bool(TRUE), "countdownValue", Num(2)),
   PairBody("p1Score", Num(3), "winner", Num(1))}

\* The bodies the shipped client sends: sendUpdate as player 1 and as
\* player 2, and the update that consumes readyToStart.
P1Body ==
  [f \in {"player", "paddleY", "ballX", "ballY", "ballVelX", "ballVelY",
          "ballSpeedMultiplier", "p1Score", "p2Score", "winner"} |->
     CASE f = "player" -> Num(1)
       [] f = "paddleY" -> Num(150)
       [] f = "ballX" -> Num(810)
       [] f = "ballY" -> Num(120)
       [] f = "ballVelX" -> Num(-100)
       [] f = "ballVelY" -> Num(-75)
       [] f = "ballSpeedMultiplier" -> Num(1536)
       [] f = "p1Score" -> Num(1)
       [] f = "p2Score" -> Num(2)
       [] OTHER -> Null]

P2Body == [f \in {"player", "paddleY"} |-> IF f = "player" THEN Num(2) ELSE Num(150)]

ConsumeBody ==
  [f \in {"readyToStart", "gameStarted"} |->
     IF f = "readyToStart" THEN Bool(FALSE) ELSE Bool(TRUE)]

ClientBodies == {P1Body, P2Body, ConsumeBody}

Bodies == {EmptyObject} \cup SingleBodies \cup PairBodies \cup ClientBodies

\* ------------------------------------------------------------- the client
\* The script variables of a player's page as the page loads them, and what
\* of its document the script reads back: whether the countdown and the
\* replay button are hidden, whether the start button has been used, and
\* whether updateTimer is set.  The ball's position and the paddles, which
\* decide no request but by their values, are left out, and so are the
\* scores and the multiplier on player 2's page, which only displays them.
PageLoaded ==
  [open |-> FALSE, gameStarted |-> FALSE, winner |-> Null,
   p1Score |-> 0, p2Score |-> 0, ballSpeedMultiplier |-> MULT_ONE,
   countdownHidden |-> TRUE, replayHidden |-> TRUE,
   startUsed |-> FALSE, updateTimer |-> FALSE, consume |-> FALSE]

\* sendUpdate: the body a page sends.  Player 2 sends its paddle; player 1
\* adds the ball, the multiplier, the scores and the winner.
SendUpdateBodyFromBoth(p, c) ==
  [f \in {"player", "paddleY", "ballX", "ballY", "ballVelX", "ballVelY",
          "ballSpeedMultiplier", "p1Score", "p2Score", "winner"} |->
     CASE f = "player" -> Num(p)
       [] f = "paddleY" -> Num(150)
       [] f = "ballX" -> Num(810)
       [] f = "ballY" -> Num(120)
       [] f = "ballVelX" -> Num(-100)
       [] f = "ballVelY" -> Num(-75)
       [] f = "ballSpeedMultiplier" -> Num(c.ballSpeedMultiplier)
       [] f = "p1Score" -> Num(c.p1Score)
       [] f = "p2Score" -> Num(c.p2Score)
       [] OTHER -> c.winner]

SendUpdateBody(p, c) ==
  IF p = 1
    THEN [f \in {"player", "paddleY", "ballX", "ballY", "ballVelX", "ballVelY",
                 "ballSpeedMultiplier", "p1Score", "p2Score", "winner"} |->
            CASE f = "player" -> Num(1)
              [] f = "paddleY" -> Num(150)
              [] f = "ballX" -> Num(810)
              [] f = "ballY" -> Num(120)
              [] f = "ballVelX" -> Num(-100)
              [] f = "ballVelY" -> Num(-75)
              [] f = "ballSpeedMultiplier" -> Num(c.ballSpeedMultiplier)
              [] f = "p1Score" -> Num(c.p1Score)
              [] f = "p2Score" -> Num(c.p2Score)
              [] OTHER -> c.winner]
    ELSE P2Body

\* endGame: the game loop's timer is cleared and the loser is shown the
\* replay button.
EndGame(p, c) ==
  [c EXCEPT !.updateTimer = FALSE,
            !.replayHidden = IF (p = 1 /\ c.winner = Num(2)) \/ (p = 2 /\ c.winner = Num(1))
                               THEN FALSE ELSE @]

\* updateBallPhysics, by what the tick does to the match: the ball moves on,
\* or it leaves the table on one side, which scores for the other player and
\* speeds the ball up by a half.  The winner is checked after every tick.
WinnerCheckOffByOne(p, c) ==
  IF c.p1Score >= WINNING_SCORE - 1 THEN EndGame(p, [c EXCEPT !.winner = Num(1)])
  ELSE IF c.p2Score >= WINNING_SCORE - 1 THEN EndGame(p, [c EXCEPT !.winner = Num(2)])
  ELSE c

WinnerCheck(p, c) ==
  IF c.p1Score >= WINNING_SCORE THEN EndGame(p, [c EXCEPT !.winner = Num(1)])
  ELSE IF c.p2Score >= WINNING_SCORE THEN EndGame(p, [c EXCEPT !.winner = Num(2)])
  ELSE c

TickOutcomes == {"move", "p1", "p2"}

UpdateBallPhysics(p, c, outcome) ==
  LET faster == (c.ballSpeedMultiplier * 3) \div 2
      c1 == CASE outcome = "p1" ->
                   [c EXCEPT !.p1Score = @ + 1, !.ballSpeedMultiplier = faster]
              [] outcome = "p2" ->
                   [c EXCEPT !.p2Score = @ + 1, !.ballSpeedMultiplier = faster]
              [] OTHER -> c
  IN WinnerCheck(p, c1)

\* The ball on player 1's page.  Lengths are held in 1024ths of a pixel,
\* the unit of ballSpeedMultiplier, so that a speed of 10 pixels times 1.5
\* to the tenth is a whole number.
Px(x) == x * MULT_ONE

PageWithBall ==
  [f \in (DOMAIN PageLoaded) \cup {"ballX", "ballY", "ballVelX", "ballVelY"} |->
     CASE f = "ballX" -> Px(FULL_WIDTH) \div 2
       [] f = "ballY" -> Px(CANVAS_HEIGHT) \div 2
       [] f = "ballVelX" -> Px(BASE_BALL_SPEED)
       [] f = "ballVelY" -> (Px(BASE_BALL_SPEED) * 3) \div 4
       [] OTHER -> PageLoaded[f]]

Abs(x) == IF x < 0 THEN -x ELSE x

\* updateBallPhysics, its first part: the ball moves by its velocity, turns
\* at the top and the bottom, and turns at a paddle's plane when the paddle
\* is there.  hit says whether the paddle is; a paddle that is there has its
\* centre at the ball's height, which it can have between the paddle's
\* limits, and adds nothing to ballVelY.
MoveBall(c, hit) ==
  LET x == c.ballX + c.ballVelX
      y == c.ballY + c.ballVelY
      vy == IF y - Px(BALL_SIZE) \div 2 <= 0 \/ y + Px(BALL_SIZE) \div 2 >= Px(CANVAS_HEIGHT)
              THEN -c.ballVelY ELSE c.ballVelY
      met == /\ hit
             /\ y >= Px(PADDLE_HEIGHT) \div 2
             /\ y <= Px(CANVAS_HEIGHT) - Px(PADDLE_HEIGHT) \div 2
      vx == IF x - Px(BALL_SIZE) \div 2 <= Px(PADDLE_WIDTH) /\ met THEN Abs(c.ballVelX)
            ELSE IF x + Px(BALL_SIZE) \div 2 >= Px(FULL_WIDTH) - Px(PADDLE_WIDTH) /\ met
              THEN -Abs(c.ballVelX)
            ELSE c.ballVelX
  IN [c EXCEPT !.ballX = x, !.ballY = y, !.ballVelX = vx, !.ballVelY = vy]

\* What the tick does to the match once the ball has moved.
TickOutcome(c) ==
  IF c.ballX < 0 THEN "p2"
  ELSE IF c.ballX > Px(FULL_WIDTH) THEN "p1"
  ELSE "move"

\* resetBall: the ball goes to the centre, and leaves to the side dir with
\* the speed of the multiplier; tenth is the second Math.random() in tenths,
\* taken at the middle of its range, where the ball is served level.
ServeDirections == {1, -1}
ServeRandoms == {5}

ResetBall(c, dir, tenth) ==
  [c EXCEPT !.ballX = Px(FULL_WIDTH) \div 2,
            !.ballY = Px(CANVAS_HEIGHT) \div 2,
            !.ballVelX = dir * BASE_BALL_SPEED * c.ballSpeedMultiplier,
            !.ballVelY = ((tenth - 5) * BASE_BALL_SPEED * 3 * c.ballSpeedMultiplier) \div 20]

\* The polling callback of startPolling on a state st it was sent.  First
\* the countdown display: a running countdown that was not yet shown clears
\* the page's match; then readyToStart starts the game loop and asks for
\* the consuming update, or else gameStarted is taken from the server; then
\* the fields the page does not own are taken over.
ShowCountdown(c, st) ==
  IF Truthy(Get(st, "countdownActive")) /\ Get(st, "countdownValue").n > 0
    THEN IF c.countdownHidden
           THEN [c EXCEPT !.countdownHidden = FALSE, !.replayHidden = TRUE,
                          !.winner = Null, !.gameStarted = FALSE,
                          !.p1Score = 0, !.p2Score = 0,
                          !.ballSpeedMultiplier = MULT_ONE,
                          !.updateTimer = FALSE]
           ELSE c
  ELSE IF ~Truthy(Get(st, "countdownActive")) /\ ~c.countdownHidden
    THEN [c EXCEPT !.countdownHidden = TRUE]
  ELSE c

StartsGameAlways(c, st) == Truthy(Get(st, "readyToStart"))

StartsGame(c, st) == Truthy(Get(st, "readyToStart")) /\ ~c.gameStarted

StartOrSync(c, st) ==
  IF StartsGame(c, st)
    THEN [c EXCEPT !.countdownHidden = TRUE, !.gameStarted = TRUE,
                   !.p1Score = 0, !.p2Score = 0,
                   !.ballSpeedMultiplier = MULT_ONE, !.winner = Null,
                   !.updateTimer = TRUE, !.consume = TRUE]
  ELSE IF Get(st, "gameStarted") # Bool(c.gameStarted)
    THEN [c EXCEPT !.gameStarted = Truthy(Get(st, "gameStarted"))]
  ELSE c

MultiplierOr1(st) ==
  IF Truthy(Get(st, "ballSpeedMultiplier")) THEN Get(st, "ballSpeedMultiplier").n ELSE MULT_ONE

TakeOver(p, c, st) ==
  IF p = 2
    THEN IF Truthy(Get(st, "winner")) /\ ~Truthy(c.winner)
           THEN EndGame(p, [c EXCEPT !.winner = Get(st, "winner")])
           ELSE c
    ELSE IF ~c.gameStarted
      THEN [c EXCEPT !.ballSpeedMultiplier = MultiplierOr1(st)]
      ELSE c

OnState(p, c, st) == TakeOver(p, StartOrSync(ShowCountdown(c, st), st), st)

\* ------------------------------------------------------------------- Init
Init ==
  /\ cl = [p \in Players |-> PageLoaded]
  /\ now = StartOfTime
  /\ storeUp = TRUE
  /\ outages = 0
  /\ redisClient = "null"
  /\ sock = "closed"
  /\ isRedisConnected = FALSE
  /\ redisUnavailable = FALSE
  /\ redisUnavailableMessage = NoMessage
  /\ store = [x \in {} |-> 0]
  /\ pc = [r \in Slots |-> "idle"]
  /\ req = [r \in Slots |-> NoRequest]
  /\ sess = [r \in Slots |-> EmptyObject]
  /\ resp = [r \in Slots |-> NoResponse]
  /\ updates = 0
  /\ wlog = [id \in SessionIds |-> NoWrite]

\* -------------------------------------------------------------- responses
Resolved(status, body) == [outcome |-> "resolved", status |-> status, body |-> body]
Rejected(err) == [outcome |-> "rejected", error |-> err]

redisUnavailableResponse(msg) ==
  Resolved(503, [success |-> FALSE, error |-> "Redis connection unavailable",
                 detail |-> msg])

NotFoundResponseAsSuccess == Resolved(200, [success |-> TRUE])

NotFoundResponse == Resolved(404, [success |-> FALSE, error |-> "Session not found"])
InvalidActionAsNotAllowed ==
  Resolved(405, [success |-> FALSE, error |-> "Method not allowed"])

InvalidActionResponse == Resolved(400, [success |-> FALSE, error |-> "Invalid action"])
NotAllowedResponse == Resolved(405, [success |-> FALSE, error |-> "Method not allowed"])
PageResponse == Resolved(200, [html |-> TRUE])
ErrorResponse(msg) == Resolved(500, [success |-> FALSE, error |-> msg])

\* The body of a handler's 200 response.
SuccessBody(action, id, s) ==
  CASE action = "create" -> [success |-> TRUE, sessionId |-> id]
    [] action = "join" -> [success |-> TRUE, p2Connected |-> TRUE]
    [] action = "state" -> [success |-> TRUE, state |-> Stringify(s)]
    [] OTHER -> [success |-> TRUE]

\* ------------------------------------------------------------------ store
\* A key is readable until its time-to-live has run out.
Live(id) == id \in DOMAIN store /\ now < store[id].exp

\* generateSessionId: an identifier no stored session uses.  The code draws
\* it with Math.random (some 22 characters of base 36) and does not look it
\* up; an identifier drawn twice is left out.
AnyIds == SessionIds

FreshIds == {id \in SessionIds : ~Live(id)}

\* SETEX key SESSION_TTL text, executed at time t.
SetExKeepingExpiry(st, id, text, t) ==
  [x \in (DOMAIN st) \cup {id} |->
     IF x # id THEN st[x]
     ELSE IF id \in DOMAIN st /\ t < st[id].exp
       THEN [data |-> text, exp |-> st[id].exp]
     ELSE [data |-> text, exp |-> t + SESSION_TTL * 1000]]

SetEx(st, id, text, t) ==
  [x \in (DOMAIN st) \cup {id} |->
     IF x = id THEN [data |-> text, exp |-> t + SESSION_TTL * 1000] ELSE st[x]]

\* A command is answered while the socket is open and the server reachable.
CanExec == sock = "open" /\ storeUp

\* ------------------------------------------------------------ the requests
\* The requests over the update bodies B.  A body that is no JSON text, or
\* that is missing, is tried with one action of each kind.
InputsOver(B) ==
  {[method |-> "GET", action |-> a, bodyKind |-> "object", sid |-> "s1", body |-> EmptyObject] :
     a \in {"none", "state"}}
  \cup {[method |-> "PUT", action |-> "state", bodyKind |-> "object", sid |-> "s1", body |-> EmptyObject]}
  \cup {[method |-> "POST", action |-> a, bodyKind |-> "object", sid |-> id, body |-> EmptyObject] :
          a \in ActionTokens \ {"update"}, id \in SessionIds}
  \cup {[method |-> "POST", action |-> a, bodyKind |-> k, sid |-> id, body |-> EmptyObject] :
          a \in {"create", "join", "bogus"}, k \in {"badjson", "null"}, id \in SessionIds}
  \cup {[method |-> "POST", action |-> "update", bodyKind |-> "object", sid |-> id, body |-> b] :
          id \in SessionIds, b \in B}

RequestInputs == InputsOver(Bodies)

\* The well-formed requests for the six operations.
SessionInputs ==
  {in \in RequestInputs :
     in.method = "POST" /\ in.bodyKind = "object" /\ in.action \in SessionActions \cup {"create"}}

\* The player whose page sent the request; 0 when it is no page's.
Sender(in) == IF "from" \in DOMAIN in THEN in.from ELSE 0

\* A request as it is tracked: the inputs, and what the handler has read.
Tracked(in) ==
  [method |-> in.method, from |-> Sender(in), action |-> in.action, bodyKind |-> in.bodyKind,
   sid |-> in.sid, body |-> in.body,
   pre |-> EmptyObject,          \* the session getSession returned
   prelog |-> NoWrite,           \* the key's last write at that time
   t |-> now,                    \* Date.now() when the handler last read it
   attempted |-> FALSE,          \* a store command has been issued
   wrote |-> FALSE,              \* setSession has completed
   cmdFailed |-> FALSE,          \* a store command of it was rejected
   allDown |-> ~storeUp,         \* the server was away since the request began
   known |-> redisUnavailable \/ redisClient = "null",
                                 \* it began with the client marked or absent
   allUp |-> storeUp /\ ~redisUnavailable]
                                 \* unmarked at its start, the server there since

IsUpdate(in) ==
  /\ in.method = "POST"
  /\ in.action = "update"
  /\ in.bodyKind = "object"
  /\ Sender(in) = 0

Accept(r, in) ==
  /\ pc[r] = "idle"
  /\ IsUpdate(in) => updates < MaxUpdates
  /\ (in.method = "POST" /\ in.action = "create") => FreshIds # {}
  /\ updates' = IF IsUpdate(in) THEN updates + 1 ELSE updates

\* handleRequest settles with response rs.
Settle(r, rq, rs) ==
  /\ pc' = [pc EXCEPT ![r] = "done"]
  /\ req' = [req EXCEPT ![r] = rq]
  /\ resp' = [resp EXCEPT ![r] = rs]
  /\ sess' = sess

\* Whether an exception thrown by the dispatched handler is caught by the
\* try block of handleRequest.  The handlers are async and the switch
\* returns their promise without awaiting it, so a rejection passes by the
\* catch clause and handleRequest rejects with it.
HandlerRejectionCaught == FALSE

\* What handleRequest settles with when the dispatched handler rejects.
HandlerFailure(err, unavailable, msg) ==
  IF HandlerRejectionCaught
    THEN IF err = "RedisUnavailableError" \/ unavailable
           THEN redisUnavailableResponse(msg)
           ELSE ErrorResponse(err)
    ELSE Rejected(err)

\* JSON.parse of a body that is no JSON text throws a SyntaxError whose
\* message describes the text: one with a character out of place ("badjson"),
\* or one that breaks off ("truncated").
BadJsonKinds == {"badjson", "truncated"}

ParseFailureMessage(kind) ==
  IF kind = "truncated" THEN "Unexpected end of JSON input" ELSE "Unexpected token"

\* The body parse and the switch of handleRequest, up to the first store
\* command of the handler it dispatches to.
Dispatch(r, rq) ==
  IF rq.bodyKind \in BadJsonKinds
    THEN Settle(r, rq, ErrorResponse(ParseFailureMessage(rq.bodyKind)))
  ELSE IF rq.action = "create"
    THEN \E id \in FreshIds :
           /\ pc' = [pc EXCEPT ![r] = "set"]
           /\ req' = [req EXCEPT ![r] = [rq EXCEPT !.sid = id, !.t = now, !.attempted = TRUE]]
           /\ sess' = [sess EXCEPT ![r] = StampLastUpdate(InitialSession(now), now)]
           /\ resp' = resp
  ELSE IF rq.action \in SessionActions
    THEN IF rq.bodyKind = "null"
           THEN Settle(r, rq, HandlerFailure("TypeError", FALSE, NoMessage))
           ELSE /\ pc' = [pc EXCEPT ![r] = "get"]
                /\ req' = [req EXCEPT ![r] = [rq EXCEPT !.attempted = TRUE]]
                /\ UNCHANGED <<sess, resp>>
  ELSE Settle(r, rq, InvalidActionResponse)

\* getRedisClient, up to its await: it throws when the client is marked
\* unavailable, starts a connection when no client is cached, and returns
\* the cached client otherwise.
ClientProbeUntilOpen ==
  IF redisUnavailable THEN "throw"
  ELSE IF redisClient = "null" \/ sock = "connecting" THEN "connect"
  ELSE "cached"

ClientProbeUnmarked ==
  IF redisClient = "null" THEN "connect" ELSE "cached"

ClientProbeRetry ==
  IF redisClient = "null" THEN "connect"
  ELSE IF redisUnavailable THEN "throw"
  ELSE "cached"

ClientProbe ==
  IF redisUnavailable THEN "throw"
  ELSE IF redisClient = "null" THEN "connect"
  ELSE "cached"

\* GET without an action: the page.
BeginGetPage(r, I) ==
  \E in \in I :
    /\ in.method = "GET" /\ in.action = "none"
    /\ Accept(r, in)
    /\ Settle(r, Tracked(in), PageResponse)
    /\ UNCHANGED <<now, storeUp, outages, connVars, store, wlog>>

\* Neither that GET nor a POST: 405.
BeginNotAllowed(r, I) ==
  \E in \in I :
    /\ in.method # "POST" /\ ~(in.method = "GET" /\ in.action = "none")
    /\ Accept(r, in)
    /\ Settle(r, Tracked(in), NotAllowedResponse)
    /\ UNCHANGED <<now, storeUp, outages, connVars, store, wlog>>

\* POST, getRedisClient throws at once: the client is marked unavailable.
BeginUnavailable(r, I) ==
  \E in \in I :
    /\ in.method = "POST"
    /\ ClientProbe = "throw"
    /\ Accept(r, in)
    /\ Settle(r, Tracked(in), redisUnavailableResponse(redisUnavailableMessage))
    /\ UNCHANGED <<now, storeUp, outages, connVars, store, wlog>>

\* POST, no client yet: getRedisClient creates one and awaits connect().
BeginConnect(r, I) ==
  \E in \in I :
    /\ in.method = "POST"
    /\ ClientProbe = "connect"
    /\ Accept(r, in)
    /\ redisClient' = "client"
    /\ sock' = "connecting"
    /\ pc' = [pc EXCEPT ![r] = "connect"]
    /\ req' = [req EXCEPT ![r] = Tracked(in)]
    /\ UNCHANGED <<now, storeUp, outages, isRedisConnected,
                   redisUnavailable, redisUnavailableMessage, store, sess,
                   resp, wlog>>

\* POST, a client is cached: the probe returns it and the handler runs.
BeginCached(r, I) ==
  \E in \in I :
    /\ in.method = "POST"
    /\ ClientProbe = "cached"
    /\ Accept(r, in)
    /\ Dispatch(r, Tracked(in))
    /\ UNCHANGED <<now, storeUp, outages, connVars, store, wlog>>

\* connect() resolves: the 'connect' listener has run, the handler starts.
ConnectOk(r) ==
  /\ pc[r] = "connect"
  /\ storeUp
  /\ sock' = "open"
  /\ isRedisConnected' = TRUE
  /\ redisUnavailable' = FALSE
  /\ redisUnavailableMessage' = NoMessage
  /\ Dispatch(r, req[r])
  /\ UNCHANGED <<now, storeUp, outages, redisClient, store, updates, wlog>>

\* Every request waiting for a reply on the client loses its command.
FailPending(r, rsr, err, msg) ==
  /\ pc' = [q \in Slots |->
              IF q = r \/ pc[q] \in {"get", "set"} THEN "done" ELSE pc[q]]
  /\ resp' = [q \in Slots |->
                IF q = r THEN rsr
                ELSE IF pc[q] \in {"get", "set"} THEN HandlerFailure(err, TRUE, msg)
                ELSE resp[q]]
  /\ req' = [q \in Slots |->
               IF q # r /\ pc[q] \in {"get", "set"}
                 THEN [req[q] EXCEPT !.cmdFailed = TRUE] ELSE req[q]]
  /\ sess' = sess

\* connect() rejects: the catch block of getRedisClient, then the 503 of
\* ensureRedisAvailable.
ConnectFail(r) ==
  /\ pc[r] = "connect"
  /\ ~storeUp
  /\ redisUnavailable' = TRUE
  /\ redisUnavailableMessage' = "connect failed"
  /\ redisClient' = "null"
  /\ sock' = "closed"
  /\ FailPending(r, redisUnavailableResponse("connect failed"),
                 "connect failed", "connect failed")
  /\ UNCHANGED <<now, storeUp, outages, isRedisConnected, store,
                 updates, wlog>>

\* The 'error' listener: the open socket has lost the server.  The commands
\* waiting for a reply are rejected with the socket's error.
OnError ==
  /\ redisClient = "client"
  /\ sock = "open"
  /\ ~storeUp
  /\ sock' = "broken"
  /\ isRedisConnected' = FALSE
  /\ redisUnavailable' = TRUE
  /\ redisUnavailableMessage' = "socket error"
  /\ FailPending(0, NoResponse, "socket error", "socket error")
  /\ UNCHANGED <<now, storeUp, outages, redisClient, store, updates, wlog>>

\* The 'connect' listener after the client has reconnected by itself.
OnConnect ==
  /\ redisClient = "client"
  /\ sock = "broken"
  /\ storeUp
  /\ sock' = "open"
  /\ isRedisConnected' = TRUE
  /\ redisUnavailable' = FALSE
  /\ redisUnavailableMessage' = NoMessage
  /\ UNCHANGED <<now, storeUp, outages, redisClient, store, pc,
                 req, sess, resp, updates, wlog>>

\* What the handler of rq.action makes of the session s it loaded, at time t.
Handle(action, s, body, t) ==
  CASE action = "join" -> JoinSession(s)
    [] action = "start" -> StartSession(s, t)
    [] action = "reset" -> ResetSession(s, t)
    [] action = "update" -> ApplyUpdate(s, body)
    [] OTHER -> IF CountdownRunning(s) THEN ResolveCountdown(s, t) ELSE s

\* Whether the handler calls setSession.
HandlerWritesAlways(action, s) == TRUE

HandlerWrites(action, s) == action # "state" \/ CountdownRunning(s)

\* The reply to getSession's GET: the handler runs up to its setSession, or
\* to its response when it writes nothing.
GetReply(r) ==
  /\ pc[r] = "get"
  /\ CanExec
  /\ LET rq == req[r]
         id == rq.sid
     IN IF ~Live(id)
          THEN Settle(r, [rq EXCEPT !.t = now], NotFoundResponse)
          ELSE LET s == Parse(store[id].data)
                   new == Handle(rq.action, s, rq.body, now)
                   seen == [rq EXCEPT !.pre = s, !.prelog = wlog[id], !.t = now]
               IN IF HandlerWrites(rq.action, s)
                    THEN IF redisUnavailable
                           THEN Settle(r, seen,
                                  HandlerFailure("RedisUnavailableError", TRUE,
                                                 redisUnavailableMessage))
                           ELSE /\ pc' = [pc EXCEPT ![r] = "set"]
                                /\ req' = [req EXCEPT ![r] = seen]
                                /\ sess' = [sess EXCEPT ![r] = StampLastUpdate(new, now)]
                                /\ resp' = resp
                    ELSE Settle(r, seen, Resolved(200, SuccessBody(rq.action, id, new)))
  /\ UNCHANGED <<now, storeUp, outages, connVars, store, updates, wlog>>

\* The kind of write a request makes.  A state read writes a "resolve" when
\* the value it computed is 0 and a "tick" otherwise; the update that clears
\* readyToStart and sets gameStarted right after a resolve is a "consume".
WriteKind(rq, s) ==
  CASE rq.action = "state" ->
         IF Get(s, "countdownValue") = Num(0) THEN "resolve" ELSE "tick"
    [] rq.action = "update" ->
         IF rq.body = ConsumeBody /\ rq.prelog.kind = "resolve" THEN "consume" ELSE "update"
    [] OTHER -> rq.action

WriteRecord(rq, s) ==
  IF rq.action = "update"
    THEN [kind |-> WriteKind(rq, s), at |-> now, body |-> rq.body]
    ELSE [kind |-> WriteKind(rq, s), at |-> now]

\* The reply to setSession's SETEX: the text is stored with a fresh
\* time-to-live and the handler returns its 200 response.
SetReply(r) ==
  /\ pc[r] = "set"
  /\ CanExec
  /\ LET rq == req[r]
         id == rq.sid
     IN /\ store' = SetEx(store, id, Stringify(sess[r]), now)
        /\ wlog' = [wlog EXCEPT ![id] = WriteRecord(rq, sess[r])]
        /\ Settle(r, [rq EXCEPT !.wrote = TRUE],
                  Resolved(200, SuccessBody(rq.action, id, sess[r])))
  /\ UNCHANGED <<now, storeUp, outages, connVars, updates>>

\* The platform adapter takes the response; the request is over.
Collect(r) ==
  /\ pc[r] = "done"
  /\ pc' = [pc EXCEPT ![r] = "idle"]
  /\ req' = [req EXCEPT ![r] = NoRequest]
  /\ sess' = [sess EXCEPT ![r] = EmptyObject]
  /\ resp' = [resp EXCEPT ![r] = NoResponse]
  /\ UNCHANGED <<now, storeUp, outages, connVars, store, updates, wlog>>

\* ------------------------------------------------------- the pages' steps
\* A page's fetch: a POST with a JSON body that reaches the handler.
Fetch(p, action, body) ==
  LET in == [method |-> "POST", action |-> action, bodyKind |-> "object",
             sid |-> "s1", body |-> body, from |-> p]
  IN BeginConnect(p, {in}) \/ BeginCached(p, {in})

\* The lobby page creates the session.
CreateSession ==
  /\ "s1" \notin DOMAIN store
  /\ ~cl[1].open
  /\ Fetch(1, "create", EmptyObject)
  /\ UNCHANGED cl

\* A player's page is opened from the lobby, which knows the session by
\* then; player 2's page joins as it loads.
OpenPage(p) ==
  /\ ~cl[p].open
  /\ "s1" \in DOMAIN store
  /\ \A q \in Players : cl[q].open \/ pc[q] = "idle"
  /\ cl' = [cl EXCEPT ![p].open = TRUE]
  /\ IF p = 2
       THEN Fetch(2, "join", EmptyObject)
       ELSE UNCHANGED <<now, storeUp, outages, connVars, store, pc, req,
                        sess, resp, updates, wlog>>

\* The start button can be clicked on player 1's page only: the page shows
\* it, and setupPlayerControls gives it its listener, under
\* playerNumber === 1.
StartClickableByBoth(p) == TRUE

StartClickable(p) == p = 1

\* The player clicks the start button, which is then hidden.
ClickStart(p) ==
  /\ cl[p].open
  /\ StartClickable(p)
  /\ ~cl[p].startUsed
  /\ cl' = [cl EXCEPT ![p].startUsed = TRUE]
  /\ Fetch(p, "start", EmptyObject)

\* The loser clicks the replay button.
ClickReplay(p) ==
  /\ cl[p].open
  /\ ~cl[p].replayHidden
  /\ cl' = [cl EXCEPT ![p].replayHidden = TRUE]
  /\ Fetch(p, "reset", EmptyObject)

\* The polling timer fires.
Poll(p) ==
  /\ cl[p].open
  /\ Fetch(p, "state", EmptyObject)
  /\ UNCHANGED cl

\* paddleUpdateTimer fires: updates are sent while no game runs.
PaddleUpdate(p) ==
  /\ cl[p].open
  /\ ~cl[p].gameStarted
  /\ ~Truthy(cl[p].winner)
  /\ Fetch(p, "update", SendUpdateBody(p, cl[p]))
  /\ UNCHANGED cl

\* gameLoop: player 1 moves the ball, with one of the given outcomes; both
\* send their update.
GameLoop(p, outcomes) ==
  /\ cl[p].open
  /\ cl[p].updateTimer
  /\ cl[p].gameStarted
  /\ ~Truthy(cl[p].winner)
  /\ \E outcome \in outcomes :
       LET c == IF p = 1 THEN UpdateBallPhysics(p, cl[p], outcome) ELSE cl[p]
       IN /\ cl' = [cl EXCEPT ![p] = c]
          /\ Fetch(p, "update", SendUpdateBody(p, c))

\* The update a poll asks for when it has started the game.
Consume(p) ==
  /\ cl[p].consume
  /\ cl' = [cl EXCEPT ![p].consume = FALSE]
  /\ Fetch(p, "update", ConsumeBody)

\* gameLoop on player 1's page with the ball it shows: the ball moves, a
\* point is scored when it has left the table and the ball is served again,
\* and the update is sent.  The update's ball stays the one of
\* SendUpdateBody.
PlayBall(p) ==
  /\ p = 1
  /\ cl[p].open
  /\ cl[p].updateTimer
  /\ cl[p].gameStarted
  /\ ~Truthy(cl[p].winner)
  /\ \E hit \in BOOLEAN, dir \in ServeDirections, tenth \in ServeRandoms :
       LET moved == MoveBall(cl[p], hit)
           counted == UpdateBallPhysics(p, moved, TickOutcome(moved))
           c == IF TickOutcome(moved) = "move" THEN counted ELSE ResetBall(counted, dir, tenth)
       IN /\ cl' = [cl EXCEPT ![p] = c]
          /\ Fetch(p, "update", SendUpdateBody(p, c))

\* The fetch returns; the polling callback works on a state it was sent.
Returned(p) ==
  /\ Collect(p)
  /\ cl' = IF /\ cl[p].open
              /\ req[p].action = "state"
              /\ resp[p].outcome = "resolved"
              /\ resp[p].status = 200
             THEN [cl EXCEPT ![p] = OnState(p, cl[p], resp[p].body.state)]
             ELSE cl

\* The clock of a match moves between requests.
AdvanceMatch ==
  /\ \A r \in Slots : pc[r] = "idle"
  /\ now + MatchStep <= StartOfTime + MaxMatchSteps * MatchStep
  /\ now' = now + MatchStep
  /\ UNCHANGED <<storeUp, outages, connVars, store, pc, req, sess, resp,
                 updates, wlog, cl>>

\* ------------------------------------------------------------ environment
\* The clock moves between requests: a handler runs within one clock step.
Advance ==
  /\ \A r \in Slots : pc[r] = "idle"
  /\ now + ClockStep <= StartOfTime + MaxAdvances * ClockStep
  /\ now' = now + ClockStep
  /\ UNCHANGED <<storeUp, outages, connVars, store, pc, req, sess, resp,
                 updates, wlog>>

\* A long idle time between requests.
AdvanceIdle ==
  /\ \A r \in Slots : pc[r] = "idle"
  /\ now + IdleStep <= StartOfTime + MaxIdleSteps * IdleStep
  /\ now' = now + IdleStep
  /\ UNCHANGED <<storeUp, outages, connVars, store, pc, req, sess, resp,
                 updates, wlog>>

StoreGoesDown ==
  /\ storeUp
  /\ outages < MaxOutages
  /\ storeUp' = FALSE
  /\ outages' = outages + 1
  /\ req' = [q \in Slots |->
               IF pc[q] = "idle" THEN req[q] ELSE [req[q] EXCEPT !.allUp = FALSE]]
  /\ UNCHANGED <<now, connVars, store, pc, sess, resp, updates, wlog>>

StoreComesUp ==
  /\ ~storeUp
  /\ storeUp' = TRUE
  /\ req' = [q \in Slots |->
               IF pc[q] = "idle" THEN req[q] ELSE [req[q] EXCEPT !.allDown = FALSE]]
  /\ UNCHANGED <<now, outages, connVars, store, pc, sess, resp,
                 updates, wlog>>

\* ------------------------------------------------------- the specification
\* The session operations, served one request at a time over a store that
\* stays reachable.
Next ==
  /\ \/ BeginConnect(1, SessionInputs)
     \/ BeginCached(1, SessionInputs)
     \/ ConnectOk(1)
     \/ GetReply(1)
     \/ SetReply(1)
     \/ Collect(1)
     \/ Advance
  /\ UNCHANGED cl

Spec == Init /\ [][Next]_vars

\* The same handler over a store that may be away from the start, may go
\* away and may come back; every kind of request is made, and the clock
\* stands still.
OutageInputs == InputsOver({P2Body})

InitOutage ==
  /\ cl = [p \in Players |-> PageLoaded]
  /\ now = StartOfTime
  /\ storeUp \in BOOLEAN
  /\ outages = 0
  /\ redisClient = "null"
  /\ sock = "closed"
  /\ isRedisConnected = FALSE
  /\ redisUnavailable = FALSE
  /\ redisUnavailableMessage = NoMessage
  /\ store = [x \in {} |-> 0]
  /\ pc = [r \in Slots |-> "idle"]
  /\ req = [r \in Slots |-> NoRequest]
  /\ sess = [r \in Slots |-> EmptyObject]
  /\ resp = [r \in Slots |-> NoResponse]
  /\ updates = 0
  /\ wlog = [id \in SessionIds |-> NoWrite]

NextOutage ==
  /\ \/ BeginGetPage(1, OutageInputs)
     \/ BeginNotAllowed(1, OutageInputs)
     \/ BeginUnavailable(1, OutageInputs)
     \/ BeginConnect(1, OutageInputs)
     \/ BeginCached(1, OutageInputs)
     \/ ConnectOk(1)
     \/ ConnectFail(1)
     \/ GetReply(1)
     \/ SetReply(1)
     \/ Collect(1)
     \/ OnError
     \/ OnConnect
     \/ StoreGoesDown
     \/ StoreComesUp
  /\ UNCHANGED cl

SpecOutage == InitOutage /\ [][NextOutage]_vars

\* The six operations with long idle times between them, over a store that
\* stays reachable: sessions run out of their time-to-live.
ExpiryInputs ==
  {in \in InputsOver({P2Body}) :
     in.method = "POST" /\ in.bodyKind = "object" /\ in.action \in SessionActions \cup {"create"}}

NextExpiry ==
  /\ \/ BeginConnect(1, ExpiryInputs)
     \/ BeginCached(1, ExpiryInputs)
     \/ ConnectOk(1)
     \/ GetReply(1)
     \/ SetReply(1)
     \/ Collect(1)
     \/ AdvanceIdle
  /\ UNCHANGED cl

SpecExpiry == Init /\ [][NextExpiry]_vars

\* No request is in flight.
Quiet == \A r \in Slots : pc[r] = "idle"

\* A match: the lobby and the two players' pages over a store that stays
\* reachable, a request being sent when the one before it has returned.
NextMatch ==
  \/ Quiet /\ CreateSession
  \/ \E p \in Players : Quiet /\ OpenPage(p)
  \/ \E p \in Players : Quiet /\ ClickStart(p)
  \/ \E p \in Players : Quiet /\ ClickReplay(p)
  \/ \E p \in Players : Quiet /\ Poll(p)
  \/ \E p \in Players : Quiet /\ PaddleUpdate(p)
  \/ \E p \in Players : Quiet /\ GameLoop(p, TickOutcomes)
  \/ \E p \in Players : Quiet /\ Consume(p)
  \/ \E p \in Players : Returned(p)
  \/ \E r \in Slots : ConnectOk(r) /\ UNCHANGED cl
  \/ \E r \in Slots : GetReply(r) /\ UNCHANGED cl
  \/ \E r \in Slots : SetReply(r) /\ UNCHANGED cl
  \/ AdvanceMatch

SpecMatch == Init /\ [][NextMatch]_vars

\* The two pages with their requests in flight together, the store's
\* commands of the two interleaved in every order, in a match in which no
\* point is scored.
NextPeers ==
  \/ CreateSession
  \/ \E p \in Players : OpenPage(p)
  \/ \E p \in Players : ClickStart(p)
  \/ \E p \in Players : Poll(p)
  \/ \E p \in Players : PaddleUpdate(p)
  \/ \E p \in Players : GameLoop(p, {"move"})
  \/ \E p \in Players : Consume(p)
  \/ \E p \in Players : Returned(p)
  \/ \E r \in Slots : ConnectOk(r) /\ UNCHANGED cl
  \/ \E r \in Slots : GetReply(r) /\ UNCHANGED cl
  \/ \E r \in Slots : SetReply(r) /\ UNCHANGED cl
  \/ AdvanceMatch

SpecPeers == Init /\ [][NextPeers]_vars

\* Date.now() moves on while requests are being served.
Tick ==
  /\ now + ClockStep <= StartOfTime + MaxAdvances * ClockStep
  /\ now' = now + ClockStep
  /\ UNCHANGED <<storeUp, outages, connVars, store, pc, req, sess, resp,
                 updates, wlog>>

\* The operations that prepare a session for its readers, and the read.
ReaderSetupInputs ==
  {in \in ExpiryInputs : in.action \in {"create", "join", "start", "reset"}}

StateInputs == {in \in ExpiryInputs : in.action = "state"}

\* Nothing but state reads is in flight.
OnlyReads == \A r \in Slots : IF pc[r] = "idle" THEN TRUE ELSE req[r].action = "state"

\* The stored session has no countdown that is still to run: none is
\* running, or the running one started at least 3 seconds ago.
CountdownElapsed ==
  /\ Live("s1")
  /\ CountdownRunning(Parse(store["s1"].data)) =>
       now >= Get(Parse(store["s1"].data), "countdownStartTime").n + 3000

\* Several pollers at once: the session is prepared one request at a time,
\* and once its countdown has elapsed state reads are served concurrently,
\* their store commands interleaved in every order while the clock runs.
NextReaders ==
  /\ \/ Quiet /\ BeginConnect(1, ReaderSetupInputs)
     \/ Quiet /\ BeginCached(1, ReaderSetupInputs)
     \/ \E r \in Slots : OnlyReads /\ CountdownElapsed /\ BeginCached(r, StateInputs)
     \/ \E r \in Slots : ConnectOk(r)
     \/ \E r \in Slots : GetReply(r)
     \/ \E r \in Slots : SetReply(r)
     \/ \E r \in Slots : Collect(r)
     \/ Tick
  /\ UNCHANGED cl

SpecReaders == Init /\ [][NextReaders]_vars

\* Requests whose body is no JSON text, or the text null, next to
\* well-formed ones.
FailureInputs ==
  {[method |-> "POST", action |-> a, bodyKind |-> k, sid |-> "s1", body |-> EmptyObject] :
     a \in {"create", "join", "state", "bogus"},
     k \in {"object", "null"} \cup BadJsonKinds}

\* Requests that fail in handleRequest itself, several in flight at a time,
\* over a store that stays reachable.
NextFailures ==
  /\ \/ \E r \in Slots : BeginConnect(r, FailureInputs)
     \/ \E r \in Slots : BeginCached(r, FailureInputs)
     \/ \E r \in Slots : ConnectOk(r)
     \/ \E r \in Slots : GetReply(r)
     \/ \E r \in Slots : SetReply(r)
     \/ \E r \in Slots : Collect(r)
  /\ UNCHANGED cl

SpecFailures == Init /\ [][NextFailures]_vars

\* Every kind of request, with long idle times between them, over a store
\* that stays reachable: the life of a session from its create to its expiry.
NextLifecycle ==
  /\ \/ BeginGetPage(1, OutageInputs)
     \/ BeginNotAllowed(1, OutageInputs)
     \/ BeginConnect(1, OutageInputs)
     \/ BeginCached(1, OutageInputs)
     \/ ConnectOk(1)
     \/ GetReply(1)
     \/ SetReply(1)
     \/ Collect(1)
     \/ AdvanceIdle
  /\ UNCHANGED cl

SpecLifecycle == Init /\ [][NextLifecycle]_vars

\* Page loads, creates and state reads arriving while others are in flight,
\* over a store that may be away, go away and come back.
ConnectInputs ==
  {in \in OutageInputs :
     \/ in.method = "GET"
     \/ in.method = "POST" /\ in.bodyKind = "object" /\ in.action \in {"create", "state"}}

NextConnect ==
  /\ \/ \E r \in Slots : BeginGetPage(r, ConnectInputs)
     \/ \E r \in Slots : BeginNotAllowed(r, ConnectInputs)
     \/ \E r \in Slots : BeginUnavailable(r, ConnectInputs)
     \/ \E r \in Slots : BeginConnect(r, ConnectInputs)
     \/ \E r \in Slots : BeginCached(r, ConnectInputs)
     \/ \E r \in Slots : ConnectOk(r)
     \/ \E r \in Slots : ConnectFail(r)
     \/ \E r \in Slots : GetReply(r)
     \/ \E r \in Slots : SetReply(r)
     \/ \E r \in Slots : Collect(r)
     \/ OnError
     \/ OnConnect
     \/ StoreGoesDown
     \/ StoreComesUp
  /\ UNCHANGED cl

SpecConnect == InitOutage /\ [][NextConnect]_vars

\* Player 1's page alone, with the ball it moves: the session is created,
\* the page opened and the match started and played, a request being sent
\* when the one before it has returned.
InitPhysics ==
  /\ cl = [p \in Players |-> IF p = 1 THEN PageWithBall ELSE PageLoaded]
  /\ now = StartOfTime
  /\ storeUp = TRUE
  /\ outages = 0
  /\ redisClient = "null"
  /\ sock = "closed"
  /\ isRedisConnected = FALSE
  /\ redisUnavailable = FALSE
  /\ redisUnavailableMessage = NoMessage
  /\ store = [x \in {} |-> 0]
  /\ pc = [r \in Slots |-> "idle"]
  /\ req = [r \in Slots |-> NoRequest]
  /\ sess = [r \in Slots |-> EmptyObject]
  /\ resp = [r \in Slots |-> NoResponse]
  /\ updates = 0
  /\ wlog = [id \in SessionIds |-> NoWrite]

NextPhysics ==
  \/ Quiet /\ CreateSession
  \/ Quiet /\ OpenPage(1)
  \/ Quiet /\ ClickStart(1)
  \/ Quiet /\ ClickReplay(1)
  \/ Quiet /\ Poll(1)
  \/ Quiet /\ PaddleUpdate(1)
  \/ Quiet /\ PlayBall(1)
  \/ Quiet /\ Consume(1)
  \/ Returned(1)
  \/ ConnectOk(1) /\ UNCHANGED cl
  \/ GetReply(1) /\ UNCHANGED cl
  \/ SetReply(1) /\ UNCHANGED cl
  \/ AdvanceMatch

SpecPhysics == InitPhysics /\ [][NextPhysics]_vars

\* The next requests are served by a process whose clock is behind: Date.now()
\* reads earlier than it did in the process that served the last one.
ClockBehind ==
  /\ \A r \in Slots : pc[r] = "idle"
  /\ now - SkewStep >= StartOfTime
  /\ now' = now - SkewStep
  /\ UNCHANGED <<storeUp, outages, connVars, store, pc, req, sess, resp,
                 updates, wlog>>

\* The six operations served one at a time by processes whose clocks differ.
NextSkew ==
  /\ \/ BeginConnect(1, ExpiryInputs)
     \/ BeginCached(1, ExpiryInputs)
     \/ ConnectOk(1)
     \/ GetReply(1)
     \/ SetReply(1)
     \/ Collect(1)
     \/ Advance
     \/ ClockBehind
  /\ UNCHANGED cl

SpecSkew == Init /\ [][NextSkew]_vars

\* A session is left alone until shortly before its time-to-live runs out.
AdvanceLate ==
  /\ \A r \in Slots : pc[r] = "idle"
  /\ now + LateStep <= StartOfTime + LateStep
  /\ now' = now + LateStep
  /\ UNCHANGED <<storeUp, outages, connVars, store, pc, req, sess, resp,
                 updates, wlog>>

\* Time passes between the GET and the SETEX of a handler that serves such a
\* session.
Elapse ==
  /\ \E r \in Slots : pc[r] \in {"get", "set"}
  /\ now >= StartOfTime + LateStep
  /\ now + ClockStep <= StartOfTime + LateStep + ClockStep
  /\ now' = now + ClockStep
  /\ UNCHANGED <<storeUp, outages, connVars, store, pc, req, sess, resp,
                 updates, wlog>>

\* The six operations on a session that is about to run out, with time
\* passing while a request is served.
NextLate ==
  /\ \/ BeginConnect(1, ExpiryInputs)
     \/ BeginCached(1, ExpiryInputs)
     \/ ConnectOk(1)
     \/ GetReply(1)
     \/ SetReply(1)
     \/ Collect(1)
     \/ AdvanceLate
     \/ Elapse
  /\ UNCHANGED cl

SpecLate == Init /\ [][NextLate]_vars

\* The two pages with their timers firing for ever: every poll, every update
\* a page has to send and every reply of the store comes in the end, and the
\* clock moves on.
FairPeers ==
  /\ \A p \in Players :
       /\ SF_vars(Poll(p))
       /\ SF_vars(Consume(p))
       /\ SF_vars(GameLoop(p, {"move"}))
       /\ WF_vars(Returned(p))
  /\ \A r \in Slots :
       /\ WF_vars(ConnectOk(r) /\ UNCHANGED cl)
       /\ WF_vars(GetReply(r) /\ UNCHANGED cl)
       /\ WF_vars(SetReply(r) /\ UNCHANGED cl)
  /\ <>(now > StartOfTime)

SpecPeersFair == Init /\ [][NextPeers]_vars /\ FairPeers

\* ================================================================= claims
\* A request that has settled with a 200 response of the given action.
Done200(r, action) ==
  /\ pc[r] = "done"
  /\ req[r].method = "POST"
  /\ req[r].action = action
  /\ resp[r].outcome = "resolved"
  /\ resp[r].status = 200

\* The session the store holds under key id, as getSession would return it.
Stored(id) == Parse(store[id].data)

\* Two objects agree on every property but lastUpdate.
SameButLastUpdate(a, b) ==
  /\ (DOMAIN a) \ {"lastUpdate"} = (DOMAIN b) \ {"lastUpdate"}
  /\ \A f \in (DOMAIN a) \ {"lastUpdate"} : a[f] = b[f]

\* C1: a state read of a session whose only write so far is its create
\* returns gameStarted=false, winner=null, both scores 0, the ball at
\* (400, 300), countdownActive=false, readyToStart=false, p1Connected=true
\* and p2Connected=false.
C1_CreateThenRead ==
  \A r \in Slots :
    (Done200(r, "state") /\ req[r].prelog.kind = "create") =>
      LET st == resp[r].body.state
      IN /\ Get(st, "gameStarted") = Bool(FALSE)
         /\ Get(st, "winner") = Null
         /\ Get(st, "p1Score") = Num(0)
         /\ Get(st, "p2Score") = Num(0)
         /\ Get(st, "ballX") = Num(400)
         /\ Get(st, "ballY") = Num(300)
         /\ Get(st, "countdownActive") = Bool(FALSE)
         /\ Get(st, "readyToStart") = Bool(FALSE)
         /\ Get(st, "p1Connected") = Bool(TRUE)
         /\ Get(st, "p2Connected") = Bool(FALSE)

C1_Witness ==
  \E r \in Slots : Done200(r, "state") /\ req[r].prelog.kind = "create"

\* A state read that found the countdown armed by start still running (the
\* last write is the start, or a state read's own write of the running
\* countdown) at least 3 seconds after the start.
ReadAfterCountdown(r) ==
  /\ Done200(r, "state")
  /\ req[r].prelog.kind \in {"start", "tick"}
  /\ CountdownRunning(req[r].pre)
  /\ req[r].t >= Get(req[r].pre, "countdownStartTime").n + 3000

\* C2: a state read at least 3 seconds after start, with no other write in
\* between, returns countdownActive=false, countdownValue=0 and
\* readyToStart=true with countdownStartTime cleared, and the store holds
\* exactly the state it returns.
C2_StartThenReadAfter3s ==
  \A r \in Slots :
    ReadAfterCountdown(r) =>
      LET st == resp[r].body.state
      IN /\ Get(st, "countdownActive") = Bool(FALSE)
         /\ Get(st, "countdownValue") = Num(0)
         /\ Get(st, "readyToStart") = Bool(TRUE)
         /\ Get(st, "countdownStartTime") = Null
         /\ req[r].wrote
         /\ Live(req[r].sid)
         /\ Stored(req[r].sid) = st

C2_Witness ==
  \E r \in Slots : ReadAfterCountdown(r) /\ req[r].prelog.kind = "start"

\* C3: the countdownValue a state read returns is a number that is never
\* negative, however long ago the countdown started.
C3_CountdownValueNotNegative ==
  \A r \in Slots :
    Done200(r, "state") =>
      /\ Get(resp[r].body.state, "countdownValue").k = "num"
      /\ Get(resp[r].body.state, "countdownValue").n >= 0

C3_Witness ==
  \E r \in Slots :
    /\ Done200(r, "state")
    /\ CountdownRunning(req[r].pre)
    /\ req[r].t >= Get(req[r].pre, "countdownStartTime").n + 4000

\* The value the property f of the session is given by a sparse patch with
\* body b: the body's own value for f, the body's paddleY for the paddle of
\* the player it names, and otherwise the value f had.
SparsePatchValue(pre, b, f) ==
  IF f = "p1Y" /\ Get(b, "player") = Num(1) /\ Has(b, "paddleY") THEN Get(b, "paddleY")
  ELSE IF f = "p2Y" /\ Get(b, "player") = Num(2) /\ Has(b, "paddleY") THEN Get(b, "paddleY")
  ELSE IF Has(b, f) THEN Get(b, f)
  ELSE Get(pre, f)

\* C4, as claimed: update overwrites exactly the session fields its partial
\* names and leaves every other field but lastUpdate at its pre-call value,
\* for every partial, also one that carries ballX without the other ball
\* fields.
C4_SparsePatch ==
  \A r \in Slots :
    Done200(r, "update") =>
      \A f \in SessionFields \ {"lastUpdate"} :
        Get(Stored(req[r].sid), f) = SparsePatchValue(req[r].pre, req[r].body, f)

BallFollowers == {"ballY", "ballVelX", "ballVelY"}

\* The same with the code's three departures: the ball fields travel with
\* ballX, and countdownActive=false with countdownValue=0 raises
\* readyToStart.
PatchValueAsCoded(pre, b, f) ==
  IF f \in BallFollowers
    THEN IF Has(b, "ballX") THEN Get(b, f) ELSE Get(pre, f)
  ELSE IF f = "readyToStart" /\ ~Has(b, f)
          /\ Get(b, "countdownActive") = Bool(FALSE)
          /\ Get(b, "countdownValue") = Num(0)
    THEN Bool(TRUE)
  ELSE SparsePatchValue(pre, b, f)

\* C4, amended: update overwrites the session fields its partial names and
\* leaves the others but lastUpdate at their pre-call value, except that
\* ballY, ballVelX and ballVelY are written only together with ballX (a
\* partial with ballX replaces all four, removing those it does not carry;
\* a partial without ballX leaves all four as they were), that paddleY is
\* applied only with player 1 or 2, and that countdownActive=false with
\* countdownValue=0 also sets readyToStart=true unless the partial carries
\* readyToStart.  A partial of only {player: 2, paddleY} changes only p2Y
\* and lastUpdate.
C4_PatchAsCoded ==
  \A r \in Slots :
    Done200(r, "update") =>
      /\ \A f \in SessionFields \ {"lastUpdate"} :
           Get(Stored(req[r].sid), f) = PatchValueAsCoded(req[r].pre, req[r].body, f)
      /\ req[r].body = P2Body =>
           /\ Get(Stored(req[r].sid), "p2Y") = Num(150)
           /\ \A f \in SessionFields \ {"lastUpdate", "p2Y"} :
                Get(Stored(req[r].sid), f) = Get(req[r].pre, f)

C4_Witness ==
  \E r \in Slots :
    /\ Done200(r, "update")
    /\ Has(req[r].body, "ballX") /\ ~Has(req[r].body, "ballY")
    /\ Has(req[r].pre, "ballY")

\* A state read that follows an update with nothing written in between, the
\* read itself writing nothing.
ReadAfterUpdate(r) ==
  /\ Done200(r, "state")
  /\ req[r].prelog.kind \in {"update", "consume"}
  /\ ~req[r].wrote

\* C5, as claimed: every session field supplied in an update partial is
\* returned with that value by the next state read, each field on its own
\* (ballY without ballX too).
C5_RoundTrip ==
  \A r \in Slots :
    ReadAfterUpdate(r) =>
      \A f \in (DOMAIN req[r].prelog.body) \cap SessionFields :
        Get(resp[r].body.state, f) = req[r].prelog.body[f]

\* C5, amended: every session field supplied in an update partial is
\* returned with that value by the next state read (no countdown side-effect
\* and no other write in between), except that ballY, ballVelX and ballVelY
\* are returned so only when the partial also carries ballX; a paddleY is
\* returned as p1Y or p2Y when the partial carries player 1 or 2.
C5_RoundTripAsCoded ==
  \A r \in Slots :
    ReadAfterUpdate(r) =>
      LET b == req[r].prelog.body
          st == resp[r].body.state
      IN /\ \A f \in (DOMAIN b) \cap SessionFields :
              (f \in BallFollowers => Has(b, "ballX")) => Get(st, f) = b[f]
         /\ (Get(b, "player") = Num(1) /\ Has(b, "paddleY")) => Get(st, "p1Y") = b["paddleY"]
         /\ (Get(b, "player") = Num(2) /\ Has(b, "paddleY")) => Get(st, "p2Y") = b["paddleY"]

C5_Witness ==
  \E r \in Slots :
    /\ ReadAfterUpdate(r)
    /\ Has(req[r].prelog.body, "readyToStart")
    /\ Has(req[r].prelog.body, "gameStarted")

\* C6: join returns 200 with p2Connected=true and leaves p2Connected=true in
\* the store, and a join that follows a join leaves the stored session as it
\* was but for lastUpdate.
C6_JoinIdempotent ==
  \A r \in Slots :
    Done200(r, "join") =>
      /\ resp[r].body.p2Connected = TRUE
      /\ Get(Stored(req[r].sid), "p2Connected") = Bool(TRUE)
      /\ req[r].prelog.kind = "join" => SameButLastUpdate(Stored(req[r].sid), req[r].pre)

C6_Witness ==
  \E r \in Slots : Done200(r, "join") /\ req[r].prelog.kind = "join"

\* C7: reset leaves the stored session with the initial ball position,
\* velocity and speed multiplier, both scores 0, winner=null,
\* gameStarted=false, readyToStart=false and the countdown armed at the time
\* of the call, whatever the session held before.
C7_ResetRestores ==
  \A r \in Slots :
    Done200(r, "reset") =>
      LET s == Stored(req[r].sid)
      IN /\ Get(s, "ballX") = Num(400)
         /\ Get(s, "ballY") = Num(300)
         /\ Get(s, "ballVelX") = Num(100)
         /\ Get(s, "ballVelY") = Num(75)
         /\ Get(s, "ballSpeedMultiplier") = Num(MULT_ONE)
         /\ Get(s, "p1Score") = Num(0)
         /\ Get(s, "p2Score") = Num(0)
         /\ Get(s, "winner") = Null
         /\ Get(s, "gameStarted") = Bool(FALSE)
         /\ Get(s, "readyToStart") = Bool(FALSE)
         /\ Get(s, "countdownActive") = Bool(TRUE)
         /\ Get(s, "countdownValue") = Num(3)
         /\ Get(s, "countdownStartTime") = Num(req[r].t)

C7_Witness ==
  \E r \in Slots :
    /\ Done200(r, "reset")
    /\ Get(req[r].pre, "winner") = Num(1)
    /\ Get(req[r].pre, "p1Score") = Num(3)

\* C8: once the update {readyToStart: false, gameStarted: true} has
\* followed the state read that ended the countdown, every state read
\* returns gameStarted=true and readyToStart=false and writes nothing, as
\* long as nothing else is written.
C8_ConsumedStaysConsumed ==
  \A r \in Slots :
    (Done200(r, "state") /\ req[r].prelog.kind = "consume") =>
      /\ Get(resp[r].body.state, "gameStarted") = Bool(TRUE)
      /\ Get(resp[r].body.state, "readyToStart") = Bool(FALSE)
      /\ ~req[r].wrote

C8_Witness ==
  \E r \in Slots :
    /\ Done200(r, "state")
    /\ req[r].prelog.kind = "consume"
    /\ Get(req[r].pre, "p2Connected") = Bool(TRUE)

\* C9, as claimed: a POST request made and served while the store is
\* unreachable settles with the 503 response, whatever its action, and no
\* store command is issued for it.
C9_UnreachableGives503 ==
  \A r \in Slots :
    (pc[r] # "idle" /\ req[r].method = "POST" /\ req[r].allDown) =>
      /\ ~req[r].attempted
      /\ pc[r] = "done" =>
           /\ resp[r].outcome = "resolved"
           /\ resp[r].status = 503
           /\ resp[r].body.success = FALSE

\* C9, amended: while the store is unreachable and the request finds the
\* client marked unavailable or finds no cached client, every POST request
\* settles with status 503 and body {success: false, error, detail},
\* whatever its action and body, and no store command is issued for it.
C9_KnownOutageGives503 ==
  \A r \in Slots :
    (pc[r] # "idle" /\ req[r].method = "POST" /\ req[r].allDown /\ req[r].known) =>
      /\ ~req[r].attempted
      /\ pc[r] = "done" =>
           /\ resp[r] = redisUnavailableResponse(redisUnavailableMessage)
           /\ redisUnavailableMessage # NoMessage

C9_Witness ==
  \E r \in Slots :
    /\ pc[r] = "done" /\ req[r].method = "POST"
    /\ req[r].allDown /\ req[r].known
    /\ req[r].action = "bogus"
    /\ redisClient = "client"

\* C10, as claimed: a request one of whose store commands was rejected
\* after its probe had succeeded settles with the 503 response.
C10_StoreFailureCaught ==
  \A r \in Slots :
    (pc[r] = "done" /\ req[r].cmdFailed) =>
      /\ resp[r].outcome = "resolved"
      /\ resp[r].status = 503

\* A request for one of the five operations on a stored session that has
\* settled while the store holds no live session under its identifier.
OnMissingSession(r) ==
  /\ pc[r] = "done"
  /\ req[r].method = "POST"
  /\ req[r].bodyKind = "object"
  /\ req[r].action \in SessionActions
  /\ ~Live(req[r].sid)

\* C16: join, start, reset, update and state on an identifier that has no
\* stored session return 404 with success=false and write nothing: the
\* store still holds no session under that identifier.
C16_MissingSessionGives404 ==
  \A r \in Slots :
    OnMissingSession(r) =>
      /\ resp[r].outcome = "resolved"
      /\ resp[r].status = 404
      /\ resp[r].body.success = FALSE
      /\ ~req[r].wrote
      /\ wlog[req[r].sid] = NoWrite

C16_Witness ==
  \E r \in Slots :
    /\ OnMissingSession(r)
    /\ req[r].action = "update"
    /\ req[r].body = P1Body

\* The value the claimed formula gives a session s read at time t:
\* max(0, 3 - floor((t - countdownStartTime) / 1000)), which is no number
\* when countdownStartTime is missing and counts from 0 when it is null.
ClaimedCountdown(s, t) ==
  LET cst == Get(s, "countdownStartTime")
      from == IF cst = Null THEN 0 ELSE cst.n
      v == COUNTDOWN_FROM - ((t - from) \div 1000)
  IN IF cst = Undefined THEN [k |-> "nan", n |-> 0]
     ELSE Num(IF v < 0 THEN 0 ELSE v)

\* C20, as claimed: a state read of a session stored with
\* countdownActive=true reports max(0, 3 - floor((now -
\* countdownStartTime)/1s)), also when countdownActive was set by an update.
C20_CountdownDerivable ==
  \A r \in Slots :
    (Done200(r, "state") /\ Truthy(Get(req[r].pre, "countdownActive"))) =>
      Get(resp[r].body.state, "countdownValue") = ClaimedCountdown(req[r].pre, req[r].t)

\* C20, amended: a state read of a session stored with countdownActive=true
\* and with a countdownStartTime (as armed by start or reset) reports
\* max(0, 3 - floor((now - countdownStartTime)/1s)); a session whose
\* countdownActive was set by an update while it has no countdownStartTime
\* is not recomputed and reports its stored countdownValue.
C20_CountdownDerivableWhenArmed ==
  \A r \in Slots :
    Done200(r, "state") =>
      IF CountdownRunning(req[r].pre)
        THEN Get(resp[r].body.state, "countdownValue") = ClaimedCountdown(req[r].pre, req[r].t)
        ELSE Get(resp[r].body.state, "countdownValue") = Get(req[r].pre, "countdownValue")

C20_Witness ==
  \E r \in Slots :
    /\ Done200(r, "state")
    /\ CountdownRunning(req[r].pre)
    /\ req[r].prelog.kind = "update"
    /\ req[r].t = Get(req[r].pre, "countdownStartTime").n + 2 * ClockStep
    /\ Get(resp[r].body.state, "countdownValue") = Num(1)

\* A request that has settled, made while the client was not marked
\* unavailable and served with the store reachable throughout.
ServedAvailable(r) == pc[r] = "done" /\ req[r].allUp

\* What the claimed dispatch table gives a settled request: the page, an
\* operation that ran (its 200 or its 404), 400 with nothing attempted, 405.
DispatchedAsClaimed(r) ==
  LET rq == req[r]
  IN IF rq.method = "GET" /\ rq.action = "none"
       THEN resp[r] = Resolved(200, [html |-> TRUE])
     ELSE IF rq.method = "POST" /\ rq.action \in SessionActions \cup {"create"}
       THEN /\ rq.attempted
            /\ resp[r].outcome = "resolved"
            /\ resp[r].status \in {200, 404}
     ELSE IF rq.method = "POST"
       THEN /\ resp[r] = Resolved(400, [success |-> FALSE, error |-> "Invalid action"])
            /\ ~rq.attempted
            /\ ~rq.wrote
     ELSE /\ resp[r].outcome = "resolved"
          /\ resp[r].status = 405
          /\ ~rq.attempted

\* C17, as claimed: with the store available the response is decided by
\* method and action alone: GET without action gives the page, POST with one
\* of the six actions runs the operation, POST with another or no action
\* gives 400 and touches no session, everything else gives 405.
C17_DispatchByMethodAndAction ==
  \A r \in Slots : ServedAvailable(r) => DispatchedAsClaimed(r)

\* C17, amended: the same for every request whose body is a JSON object;
\* a POST whose body is text that is no JSON settles with 500 whatever its
\* action, before the action is looked at.
C17_DispatchOfObjectBodies ==
  \A r \in Slots :
    ServedAvailable(r) =>
      /\ req[r].bodyKind = "object" => DispatchedAsClaimed(r)
      /\ (req[r].method = "POST" /\ req[r].bodyKind = "badjson") =>
           /\ resp[r].outcome = "resolved"
           /\ resp[r].status = 500
           /\ ~req[r].attempted

C17_Witness ==
  \E r \in Slots :
    /\ ServedAvailable(r)
    /\ req[r].method = "POST"
    /\ req[r].action = "bogus"
    /\ req[r].bodyKind = "object"
    /\ Live(req[r].sid)

\* C19: while the client is marked unavailable no connection attempt is
\* started, and a POST request accepted then is answered at once with the
\* 503 response carrying the recorded message.
C19_MarkedFailsFast ==
  [][redisUnavailable =>
       /\ (sock' = "connecting" => sock = "connecting")
       /\ \A r \in Slots :
            (pc[r] = "idle" /\ pc'[r] # "idle" /\ req'[r].method = "POST") =>
              /\ pc'[r] = "done"
              /\ resp'[r] = redisUnavailableResponse(redisUnavailableMessage)
              /\ ~req'[r].attempted]_vars

C19_Witness ==
  \E r \in Slots :
    /\ pc[r] = "done" /\ req[r].method = "POST" /\ req[r].action = "create"
    /\ redisUnavailable /\ redisClient = "null" /\ storeUp
    /\ resp[r].outcome = "resolved" /\ resp[r].status = 503

\* A settled request for one of the five operations on a stored session,
\* for an identifier that has been written before.
OnWrittenSession(r) ==
  /\ pc[r] = "done"
  /\ req[r].method = "POST"
  /\ req[r].action \in SessionActions
  /\ wlog[req[r].sid] # NoWrite

\* C18: a request that has written leaves the session with an expiry 300
\* seconds ahead and lastUpdate at the time of writing; a request that
\* finds the session at least 300 seconds after its last write gets 404,
\* and one that comes earlier finds the session.
C18_ExpiryFollowsLastWrite ==
  /\ \A r \in Slots :
       (pc[r] = "done" /\ req[r].wrote) =>
         /\ store[req[r].sid].exp = now + 300000
         /\ Get(Stored(req[r].sid), "lastUpdate") = Num(now)
         /\ wlog[req[r].sid].at = now
  /\ \A r \in Slots :
       (OnWrittenSession(r) /\ ~req[r].wrote) =>
         /\ resp[r].outcome = "resolved"
         /\ resp[r].status = 404 <=> req[r].t >= wlog[req[r].sid].at + 300000
         /\ resp[r].status = 200 <=> req[r].t < wlog[req[r].sid].at + 300000

C18_Witness ==
  \E r \in Slots :
    /\ OnWrittenSession(r)
    /\ req[r].action = "state"
    /\ resp[r].status = 404
    /\ wlog[req[r].sid].kind = "update"
    /\ req[r].t = wlog[req[r].sid].at + 300000

\* The stored session after the step.
StoredNext(id) == Parse(store'[id].data)

\* The step in which the store executes the SETEX of request r.
Writes(r) == pc[r] = "set" /\ pc'[r] = "done" /\ store' # store

\* C11: the write of an update sent by player 2's sendUpdate changes only
\* p2Y and lastUpdate of the stored session, and the write of an update
\* sent by player 1's sendUpdate leaves the stored p2Y as it is, also when
\* the two pages' requests are served interleaved; so neither write takes
\* back what the other player has written last.
C11_PeersWriteDisjointFields ==
  [][\A r \in Slots :
       (Writes(r) /\ req[r].action = "update" /\ req[r].body # ConsumeBody) =>
         IF req[r].from = 2
           THEN \A f \in SessionFields \ {"p2Y", "lastUpdate"} :
                  Get(StoredNext(req[r].sid), f) = Get(Stored(req[r].sid), f)
           ELSE Get(StoredNext(req[r].sid), "p2Y") = Get(Stored(req[r].sid), "p2Y")]_vars

\* The stored readyToStart.
Ready(st, id) == id \in DOMAIN st /\ Truthy(Get(Parse(st[id].data), "readyToStart"))

\* C12: the stored readyToStart goes from false to true only in the write
\* of a state read, and only while the stored session still holds a running
\* countdown that has run its 3 seconds: at the countdown-to-zero edge,
\* which a countdown passes once.  This holds however the two pages'
\* requests are interleaved.
C12_ReadyOnlyAtCountdownEdge ==
  [][\A id \in SessionIds :
       (~Ready(store, id) /\ Ready(store', id)) =>
         /\ id \in DOMAIN store
         /\ CountdownRunning(Stored(id))
         /\ now >= Get(Stored(id), "countdownStartTime").n + 3000
         /\ \E r \in Slots : Writes(r) /\ req[r].action = "state"]_vars

\* An update that carries readyToStart or gameStarted.
CarriesStartFlags(rq) ==
  /\ rq.method = "POST"
  /\ rq.action = "update"
  /\ (Has(rq.body, "readyToStart") \/ Has(rq.body, "gameStarted"))

C15_WinnerAtFivePoints ==
  /\ Truthy(cl[1].winner) => (cl[1].p1Score >= 5 \/ cl[1].p2Score >= 5)
  /\ \A id \in DOMAIN store :
       Truthy(Get(Stored(id), "winner")) =>
         (Get(Stored(id), "p1Score").n >= 5 \/ Get(Stored(id), "p2Score").n >= 5)

\* A state read that has returned 200 and found the countdown elapsed: still
\* running in the session it loaded, 3 seconds or more after its start, or
\* resolved by the state read that wrote last.
FoundElapsed(r) ==
  /\ Done200(r, "state")
  /\ \/ /\ CountdownRunning(req[r].pre)
        /\ req[r].t >= Get(req[r].pre, "countdownStartTime").n + 3000
     \/ req[r].prelog.kind = "resolve"

ResolvedFields == {"countdownActive", "countdownValue", "readyToStart", "countdownStartTime"}

\* An object with the four fields of a resolved countdown.
ShowsResolved(s) ==
  /\ Get(s, "countdownActive") = Bool(FALSE)
  /\ Get(s, "countdownValue") = Num(0)
  /\ Get(s, "readyToStart") = Bool(TRUE)
  /\ Get(s, "countdownStartTime") = Null

\* C21: state reads served concurrently on a session whose countdown has
\* elapsed, with nothing else running, all report the resolved countdown
\* (countdownActive=false, countdownValue=0, readyToStart=true,
\* countdownStartTime=null) and agree with each other on every field but
\* lastUpdate; the stored session is the one a single read leaves: resolved,
\* every other field but lastUpdate as the read found it.
C21_ResolutionIdempotent ==
  \A r \in Slots :
    FoundElapsed(r) =>
      /\ ShowsResolved(resp[r].body.state)
      /\ ShowsResolved(Stored(req[r].sid))
      /\ \A f \in SessionFields \ (ResolvedFields \cup {"lastUpdate"}) :
           /\ Get(Stored(req[r].sid), f) = Get(req[r].pre, f)
           /\ Get(resp[r].body.state, f) = Get(req[r].pre, f)
      /\ \A q \in Slots :
           FoundElapsed(q) => SameButLastUpdate(resp[q].body.state, resp[r].body.state)

\* Two reads that both loaded the running countdown and both wrote, at
\* different times.
C21_Witness ==
  /\ \A r \in Slots : FoundElapsed(r) /\ CountdownRunning(req[r].pre) /\ req[r].wrote
  /\ Get(resp[1].body.state, "lastUpdate") # Get(resp[2].body.state, "lastUpdate")
  /\ Get(Stored("s1"), "p2Connected") = Bool(TRUE)

\* A POST request that has settled after an exception that is no store
\* failure: its body is no JSON text, or it is the text null and the handler
\* reads sessionId from it.
UnexpectedFailure(r) ==
  /\ pc[r] = "done"
  /\ req[r].method = "POST"
  /\ req[r].allUp
  /\ \/ req[r].bodyKind \in BadJsonKinds
     \/ req[r].bodyKind = "null" /\ req[r].action \in SessionActions

\* C22: a POST request that fails with an exception that is no store failure
\* is answered with status 500, and the error text of that response is the
\* same for every such request, whatever the exception was.
C22_GenericFailure ==
  \A r \in Slots :
    UnexpectedFailure(r) =>
      /\ resp[r].outcome = "resolved"
      /\ resp[r].status = 500
      /\ \A q \in Slots :
           (UnexpectedFailure(q) /\ resp[q].outcome = "resolved") =>
             resp[q].body.error = resp[r].body.error

\* The part of C22 about JSON.parse alone: two bodies that are no JSON text
\* get the same error text.
C22_SameTextForParseFailures ==
  \A r, q \in Slots :
    (UnexpectedFailure(r) /\ UnexpectedFailure(q)
       /\ req[r].bodyKind \in BadJsonKinds /\ req[q].bodyKind \in BadJsonKinds) =>
      resp[q].body.error = resp[r].body.error

\* C23: a start request is sent by player 1's page only, so whenever start
\* arms the countdown of a session it does so for a request of player 1.
C23_StartOnlyFromPlayer1 ==
  \A r \in Slots :
    (pc[r] # "idle" /\ req[r].action = "start") => req[r].from = 1

\* Player 1's start has armed the countdown while player 2's page is open.
C23_Witness ==
  /\ pc[1] = "done" /\ req[1].action = "start" /\ req[1].from = 1 /\ req[1].wrote
  /\ cl[2].open
  /\ wlog["s1"].kind = "start"
  /\ Get(Stored("s1"), "countdownActive") = Bool(TRUE)

\* Live after the step.
LiveNext(id) == id \in DOMAIN store' /\ now' < store'[id].exp

C25_PlayingPagePublishes ==
  \A p \in Players :
    (cl[p].open /\ cl[p].gameStarted /\ ~Truthy(cl[p].winner)) => cl[p].updateTimer

\* A start that has returned 200 for a session whose countdown was running.
Restarted(r) == Done200(r, "start") /\ CountdownRunning(req[r].pre)

ArmedFields == {"countdownActive", "countdownValue", "countdownStartTime"}

\* The stored session of r holds a countdown armed at the time of r.
ArmedAtCall(r) ==
  /\ Get(Stored(req[r].sid), "countdownActive") = Bool(TRUE)
  /\ Get(Stored(req[r].sid), "countdownValue") = Num(3)
  /\ Get(Stored(req[r].sid), "countdownStartTime") = Num(req[r].t)

\* C26, as claimed: a start on a session whose countdown is running leaves
\* countdownActive=true, countdownValue=3 and countdownStartTime at the time
\* of the call, and every other field of the session as it was.
C26_RestartChangesNothingElse ==
  \A r \in Slots :
    Restarted(r) =>
      /\ ArmedAtCall(r)
      /\ \A f \in SessionFields \ ArmedFields :
           Get(Stored(req[r].sid), f) = Get(req[r].pre, f)

\* C26, amended: the same, except that lastUpdate is set to the time of the
\* call as on every write; and a state read that follows the start resolves
\* the countdown exactly when it comes 3 seconds or more after that start.
C26_RestartStampsLastUpdate ==
  /\ \A r \in Slots :
       Restarted(r) =>
         /\ ArmedAtCall(r)
         /\ Get(Stored(req[r].sid), "lastUpdate") = Num(req[r].t)
         /\ \A f \in SessionFields \ (ArmedFields \cup {"lastUpdate"}) :
              Get(Stored(req[r].sid), f) = Get(req[r].pre, f)
  /\ \A r \in Slots :
       (Done200(r, "state") /\ req[r].prelog.kind = "start") =>
         /\ wlog[req[r].sid].at >= req[r].prelog.at
         /\ ShowsResolved(resp[r].body.state) <=> req[r].t >= req[r].prelog.at + 3000

\* A restart after a state read has counted the first countdown down to 2.
C26_Witness ==
  \E r \in Slots :
    /\ Restarted(r)
    /\ req[r].prelog.kind = "tick"
    /\ Get(req[r].pre, "countdownValue") = Num(2)
    /\ req[r].t = Get(req[r].pre, "countdownStartTime").n + ClockStep

\* C27: a client is created and its connection started only by a POST
\* request that finds no client, none being created before; a request that
\* finds a client is handed that client and starts no connection, also
\* while the connection of an earlier request is still being made; and the
\* cached client stays as long as it is not marked unavailable.
C27_OneLazyCachedClient ==
  [][/\ \A r \in Slots :
          (pc[r] = "idle" /\ pc'[r] = "connect") =>
            /\ req'[r].method = "POST"
            /\ redisClient = "null" /\ sock = "closed"
            /\ \A q \in Slots : pc[q] # "connect"
     /\ (sock' = "connecting" /\ sock # "connecting") =>
          \E r \in Slots : pc[r] = "idle" /\ pc'[r] = "connect"
     /\ (redisClient = "null" /\ redisClient' = "client") =>
          \E r \in Slots : pc[r] = "idle" /\ pc'[r] = "connect"
     /\ (redisClient = "client" /\ ~redisUnavailable /\ ~redisUnavailable') =>
          redisClient' = "client"]_vars

\* A second POST is being served with the cached client while the first
\* one's connection is still being made.
C27_Witness ==
  /\ pc[1] = "connect" /\ req[1].method = "POST"
  /\ pc[2] = "get" /\ req[2].method = "POST"
  /\ redisClient = "client" /\ sock = "connecting" /\ ~redisUnavailable

\* The step in which player p's page sends an update from sendUpdate (any
\* update but the one that consumes readyToStart).
Publishes(p) ==
  /\ pc[p] = "idle"
  /\ pc'[p] # "idle"
  /\ req'[p].action = "update"
  /\ req'[p].from = p
  /\ DOMAIN req'[p].body # {"readyToStart", "gameStarted"}

RECURSIVE Pow15(_)
Pow15(n) == IF n = 0 THEN 1024 ELSE (Pow15(n - 1) * 3) \div 2

\* A tick of player 1's game loop that changed a score.
PointScored ==
  /\ pc[1] = "idle"
  /\ pc'[1] # "idle"
  /\ \/ cl'[1].p1Score # cl[1].p1Score
     \/ cl'[1].p2Score # cl[1].p2Score

InMatch == cl[1].gameStarted /\ ~Truthy(cl[1].winner)

\* C29: a point scored in player 1's physics step adds exactly 1 to exactly
\* one of the two scores, multiplies ballSpeedMultiplier by 1.5 and puts the
\* ball at (400, 300); as a consequence, while a match is on and has no
\* winner, ballSpeedMultiplier is 1.5 to the power p1Score + p2Score.  The
\* consequence is the state predicate; the step is C29_PointStep.
C29_MultiplierIsPowerOfPoints ==
  InMatch => cl[1].ballSpeedMultiplier = Pow15(cl[1].p1Score + cl[1].p2Score)

C29_PointStep ==
  [][PointScored =>
       /\ \/ cl'[1].p1Score = cl[1].p1Score + 1 /\ cl'[1].p2Score = cl[1].p2Score
          \/ cl'[1].p2Score = cl[1].p2Score + 1 /\ cl'[1].p1Score = cl[1].p1Score
       /\ cl'[1].ballSpeedMultiplier * 2 = cl[1].ballSpeedMultiplier * 3
       /\ cl'[1].ballX = 400 * 1024
       /\ cl'[1].ballY = 300 * 1024]_vars

\* C30: the replay button is offered only to the loser: wherever it is
\* visible the page's winner is set and is the other player, and it is never
\* visible on the winner's page.
C30_VisibleOnlyForLoser ==
  \A p \in Players :
    ~cl[p].replayHidden => Truthy(cl[p].winner) /\ cl[p].winner # Num(p)

\* C30, its last part alone: never visible on the page of the winner.
C30_NeverOnWinnersPage ==
  \A p \in Players : cl[p].winner = Num(p) => cl[p].replayHidden

\* C31: countdownValue is an integer in 0..3 in every stored session and in
\* every state response, whatever the clock of the process that serves the
\* read, a clock behind the stored countdownStartTime included.
C31_CountdownValueInRange ==
  /\ \A id \in DOMAIN store : Get(Stored(id), "countdownValue").n \in 0..3
  /\ \A r \in Slots :
       Done200(r, "state") => Get(resp[r].body.state, "countdownValue").n \in 0..3

\* C32: once a join has stored p2Connected=true and returned success, the
\* stored session keeps p2Connected=true for as long as it exists, whatever
\* requests on the session are served together with the join.
C32_JoinedStaysJoined ==
  [][("s1" \in DOMAIN store /\ Truthy(Get(Stored("s1"), "p2Connected"))
        /\ wlog'["s1"].kind # "create")
      => Truthy(Get(Parse(store'["s1"].data), "p2Connected"))]_vars

\* A start has returned success with both pages open, and the 3 seconds of
\* its countdown are still to pass.
StartReturned ==
  /\ Done200(1, "start")
  /\ cl[1].open
  /\ cl[2].open
  /\ now = StartOfTime

\* C33: after a start has returned success, with both pages polling and the
\* session not expiring, the stored session comes to have gameStarted=true.
C33_StartLeadsToGameStarted ==
  StartReturned ~> ("s1" \in DOMAIN store /\ Truthy(Get(Stored("s1"), "gameStarted")))

\* Request r is a state read whose getSession is being answered with a live
\* session that has no countdown in progress.
QuietRead(r) ==
  /\ pc[r] = "get"
  /\ pc'[r] # "get"
  /\ req[r].action = "state"
  /\ Live(req[r].sid)
  /\ ~(/\ Truthy(Get(Stored(req[r].sid), "countdownActive"))
       /\ Truthy(Get(Stored(req[r].sid), "countdownStartTime")))

\* C34: a state read of a session that has no countdown in progress writes
\* nothing: it returns 200 at once, and the stored text with its lastUpdate
\* and the key's expiry time are what they were; no state read that found no
\* countdown has ever written.
C34_QuietReadWritesNothing ==
  /\ [](\A r \in Slots :
          (Done200(r, "state") /\ ~Truthy(Get(req[r].pre, "countdownActive")))
            => ~req[r].wrote)
  /\ [][\A r \in Slots :
          QuietRead(r) =>
            /\ store' = store
            /\ pc'[r] = "done"
            /\ IF resp'[r].outcome = "resolved" THEN resp'[r].status = 200 ELSE FALSE]_vars

\* A state read of a session created 200 seconds before has returned 200
\* without a write, and the key expires when it would have without the read.
C34_Witness ==
  /\ Done200(1, "state")
  /\ ~req[1].wrote
  /\ ~Truthy(Get(req[1].pre, "countdownActive"))
  /\ now >= StartOfTime + 2 * IdleStep
  /\ store["s1"].exp < now + 300 * 1000

\* The scores of the stored session, and those player 1's page counts.
StoredScores(st) == <<Get(Parse(st["s1"].data), "p1Score").n, Get(Parse(st["s1"].data), "p2Score").n>>

PageScores(c) == <<c.p1Score, c.p2Score>>

\* C35, the bounds: with the shipped pages no score passes 3, and at most one
\* of the two is 3, in the stored session and on player 1's page.
C35_ScoresBounded ==
  /\ cl[1].p1Score <= 3
  /\ cl[1].p2Score <= 3
  /\ ~(cl[1].p1Score = 3 /\ cl[1].p2Score = 3)
  /\ "s1" \in DOMAIN store =>
       /\ StoredScores(store)[1] <= 3
       /\ StoredScores(store)[2] <= 3
       /\ StoredScores(store) # <<3, 3>>

\* C35: with the shipped pages, once the winner is set neither score changes
\* again until reset is called: not in the stored session, where only the
\* write of a reset may change them, and not on player 1's page, where only
\* the countdown of a reset may.
C35_ScoresFrozenAfterWinner ==
  [][/\ ("s1" \in DOMAIN store /\ Truthy(Get(Stored("s1"), "winner"))
           /\ wlog'["s1"].kind # "reset")
          => StoredScores(store') = StoredScores(store)
     /\ (Truthy(cl[1].winner) /\ wlog["s1"].kind # "reset")
          => PageScores(cl'[1]) = PageScores(cl[1])]_vars

ReadKinds == {"tick", "resolve"}

\* C36: within one countdown the value a state read reports (and stores) is
\* not above the one the read before it reported, and once a read has
\* reported 0 with countdownActive=false the stored countdownActive stays
\* false until a start or a reset writes.
C36_CountdownOnlyGoesDown ==
  [][/\ (wlog["s1"].kind \in ReadKinds /\ wlog'["s1"].kind \in ReadKinds)
          => Get(Parse(store'["s1"].data), "countdownValue").n
               <= Get(Stored("s1"), "countdownValue").n
     /\ (wlog["s1"].kind = "resolve" /\ wlog'["s1"].kind \notin {"start", "reset"})
          => ~Truthy(Get(Parse(store'["s1"].data), "countdownActive"))]_vars

\* The session stored by request r has, in the properties F, what the
\* request loaded.
FrameKept(r, F) ==
  \A f \in F : Get(Stored(req[r].sid), f) = Get(req[r].pre, f)

PresenceAndPaddles == {"p1Y", "p2Y", "p1Connected", "p2Connected"}

MatchFields ==
  {"ballX", "ballY", "ballVelX", "ballVelY", "ballSpeedMultiplier",
   "p1Score", "p2Score", "winner", "gameStarted", "readyToStart"}

\* C37: reset and start leave p1Y, p2Y, p1Connected and p2Connected as they
\* were; join changes p2Connected and, lastUpdate apart, nothing else; start
\* leaves the ball, the multiplier, the scores, winner, gameStarted and
\* readyToStart as they were.
C37_FramesOfResetStartJoin ==
  \A r \in Slots :
    /\ Done200(r, "reset") => FrameKept(r, PresenceAndPaddles)
    /\ Done200(r, "start") => FrameKept(r, PresenceAndPaddles \cup MatchFields)
    /\ Done200(r, "join") =>
         /\ FrameKept(r, SessionFields \ {"p2Connected", "lastUpdate"})
         /\ Get(Stored(req[r].sid), "p2Connected") = Bool(TRUE)

\* A start has been served on a session whose countdown had been resolved
\* and whose paddle an update had moved.
C37_Witness ==
  /\ Done200(1, "start")
  /\ Get(req[1].pre, "readyToStart") = Bool(TRUE)
  /\ Get(Stored("s1"), "readyToStart") = Bool(TRUE)
  /\ Get(Stored("s1"), "countdownActive") = Bool(TRUE)

\* C38: a join, start, reset, update or state request never adds a key to
\* the store: its SETEX is executed only on a key that is still readable,
\* also when time has passed since the request's GET.
C38_OnlyCreateAddsKey ==
  [][\A r \in Slots :
       (Writes(r) /\ req[r].action # "create") => Live(req[r].sid)]_vars

\* C39: a request is handed the client only when that client's connect()
\* has completed: no request is in its handler, a store command issued,
\* while the connection is still being made.
C39_ClientOnlyAfterConnect ==
  \A r \in Slots :
    pc[r] \in {"get", "set"} => (redisClient = "client" /\ sock # "connecting")

====
